---- MODULE Spec2Model ----
(***************************************************************************)
(* A model of the AI response pipeline of the WhatsApp assistant server:   *)
(*   - ResponseSafety   (server/src/services/response-safety.ts)           *)
(*   - ResponseCache    (server/src/services/response-cache.ts)            *)
(*   - AIProcessor      (server/src/services/ai-processor.ts)              *)
(*   - MessageQueueService (services/message-queue, the Bull queues)       *)
(*                                                                         *)
(* Texts are modelled as sequences of tokens.  A token stands for a        *)
(* concrete substring of a suggestion; a text is its tokens joined by one  *)
(* blank, except that the sentence terminator "." is attached to the token *)
(* before it.  A regular expression of the source is modelled by the set   *)
(* of tokens it matches.  Confidences are integers in thousandths.         *)
(***************************************************************************)
EXTENDS Integers, Sequences, FiniteSets, TLC

VARIABLES
    clients,    \* WhatsAppAuthService.clients: the state of the client held for a session id
    sessions,    \* WhatsAppAuthService.sessions: the status of each session
    sessionHealth,    \* SessionMonitorService.sessionHealth
    reconnectTimers,    \* the pending setTimeout callbacks of the disconnected listener
    isActive,    \* the rows of whatsapp_sessions the health check selects
    lastReconnect,    \* what the last attemptReconnect did
    pending,    \* the get and the cleanup in progress: the step each has reached and what it read
    processingMessages,    \* MessageIngestionService: the keys of the messages being processed
    cleanupTimers,    \* the times at which the pending setTimeout callbacks are due
    ingestNow,    \* the time in milliseconds
    handling,    \* the number of handlers that have not reached their finally block
    lastDelivery,    \* the latest call of handleIncomingMessage
    aiJobs,    \* the jobs of the queue 'ai-responses'
    clock,    \* the time in milliseconds
    dbMessages,    \* the rows of the table messages
    ctxCall,    \* ContextBuilder: a call of buildContext and its result
    aiSuggestions,    \* the rows of the table ai_suggestions
    fb,    \* AIProcessor: a call of updateFeedback and its repetition
    fbStats,    \* AIProcessor: a call of getAnalytics and its result
    tplIn,    \* PromptTemplates: the arguments of detectMessageType and getTemplate
    tplOut,    \* PromptTemplates: the results of the calls made with them
    sfIn,       \* ResponseSafety: arguments of the last validateAndFilter call
    sfOut,      \* ResponseSafety: its FilteredResponse
    store,      \* the Redis keys of the response cache: key -> value and expiry
    now,        \* Date.now(), in milliseconds
    ticks,      \* number of clock advances so far
    sets,       \* number of completed cache writes so far
    written,    \* per key, the value of the last completed cache write
    lastGet,    \* ResponseCache: the last get(content, userId) and its result
    lastOp,     \* ResponseCache: the last set, delete, clearUserCache or getStats
    gen,        \* AIProcessor: per request, the generateResponse call in progress
    sinkLog,    \* per request, the callbacks its streaming sink has received
    stages,     \* per request, the stages its call has carried out
    responseAnalytics,  \* AIProcessor.responseAnalytics: messageId -> record
    msgJobs,    \* MessageQueueService: the jobs of the 'messages' queue
    subJobs,    \* per sub-queue and message, the number of jobs added
    lastRun,    \* the last execution of processMessageJob
    parseIn,    \* the arguments of a call of AIProcessor.parseAIResponse
    parseOut    \* the result of that call

safetyVars == <<sfIn, sfOut>>
cacheVars == <<store, now, ticks, sets, written, lastGet, lastOp>>
genVars == <<gen, sinkLog, stages, responseAnalytics>>

queueVars == <<msgJobs, subJobs, lastRun>>
parseVars == <<parseIn, parseOut>>

templateVars == <<tplIn, tplOut>>

feedbackVars == <<aiSuggestions, fb, fbStats>>

contextVars == <<dbMessages, ctxCall>>

retryVars == <<aiJobs, clock>>

ingestVars == <<processingMessages, cleanupTimers, ingestNow, handling, lastDelivery>>

evictVars == <<pending>>

sessionVars == <<clients, sessions, sessionHealth, reconnectTimers, isActive, lastReconnect>>

vars == <<clients, sessions, sessionHealth, reconnectTimers, isActive, lastReconnect,
          pending,
          processingMessages, cleanupTimers, ingestNow, handling, lastDelivery,
          aiJobs, clock,
          dbMessages, ctxCall,
          aiSuggestions, fb, fbStats,
          tplIn, tplOut,
          sfIn, sfOut, store, now, ticks, sets, written, lastGet, lastOp,
          gen, sinkLog, stages, responseAnalytics, msgJobs, subJobs, lastRun,
          parseIn, parseOut>>

NoCall == [called |-> FALSE]

Undefined == "<undefined>"
Null == <<"<null>">>

-----------------------------------------------------------------------------
(* Bounds of the model.                                                    *)

MaxTokens == 2          \* tokens in a suggestion the model endpoint returns
MaxSuggestions == 2     \* suggestions in a model result given to the filter
MaxListTokens == 3      \* tokens in all the suggestions of one model result
LoremLen == 600         \* length of the filler token, above the 500 limit

-----------------------------------------------------------------------------
(* Texts.                                                                  *)

\* the tokens a model suggestion is made of
ModelTokens ==
    {"hate", "urgent", "$5", "babe", "<emoji>", "123-45-6789", "ok", "lorem", "."}

TokLen(t) ==
    CASE t = "hate" -> 4
      [] t = "urgent" -> 6
      [] t = "$5" -> 2
      [] t = "5" -> 1
      [] t = "babe" -> 4
      [] t = "<emoji>" -> 2
      [] t = "appreciate you" -> 14
      [] t = "123-45-6789" -> 11
      [] t = "ok" -> 2
      [] t = "lorem" -> LoremLen
      [] t = "." -> 1
      [] t = "Okay, sounds good!" -> 18
      [] t = "Thanks for sharing that with me." -> 32
      [] t = "Thanks for letting me know." -> 27
      [] t = "I understand." -> 13
      [] t = "Thank you for your message." -> 27
      [] t = "I understand. Let me get back to you on this." -> 45
      [] t = "Thanks for the information." -> 27
      [] t = "Thanks for letting me know!" -> 27
      [] t = "Got it, thanks for sharing." -> 27
      [] OTHER -> 1

RECURSIVE StrLength(_)
\* String.prototype.length of the text a token sequence stands for
StrLength(s) ==
    IF s = <<>> THEN 0
    ELSE LET n == Len(s)
             sep == IF n > 1 /\ s[n] # "." THEN 1 ELSE 0
         IN  StrLength(SubSeq(s, 1, n - 1)) + sep + TokLen(s[n])

HasTok(s, S) == \E i \in 1..Len(s) : s[i] \in S

RECURSIVE MapTokens(_, _, _)
\* String.prototype.replace(/.../g, to): every token of S becomes `to`
MapTokens(s, S, to) ==
    IF s = <<>> THEN <<>>
    ELSE <<IF Head(s) \in S THEN to ELSE Head(s)>> \o MapTokens(Tail(s), S, to)

RECURSIVE RemoveTokens(_, _)
\* String.prototype.replace(/.../g, ''): every token of S is taken out
RemoveTokens(s, S) ==
    IF s = <<>> THEN <<>>
    ELSE (IF Head(s) \in S THEN <<>> ELSE <<Head(s)>>) \o RemoveTokens(Tail(s), S)

\* all token sequences of length at most n
StringsUpTo(n) == UNION {[1..k -> ModelTokens] : k \in 0..n}

-----------------------------------------------------------------------------
(* ResponseSafety.                                                         *)

inappropriatePatterns == {"hate"}
spamPatterns == {"urgent", "$5"}
unprofessionalPatterns == {"babe", "<emoji>"}
\* the characters of the third unprofessional pattern, a class of emoji
emojiClass == {"<emoji>"}
personalPatterns == {"123-45-6789"}

MsgInappropriate == "Inappropriate content detected"
MsgSpam == "Spam-like content detected"
MsgUnprofessional == "Unprofessional content for business context"
MsgTooShort == "Response too short"
MsgTooLong == "Response too long"
MsgPersonal == "Potential personal information disclosure"
MsgValidationError == "Error during safety validation"

containsPersonalInfo(text) == HasTok(text, personalPatterns)

\* checkSafety(suggestion, conversationContext); professional is
\* isProfessionalContext(conversationContext)
checkSafety(suggestion, professional) ==
    LET issues ==
            (IF HasTok(suggestion, inappropriatePatterns) THEN <<MsgInappropriate>> ELSE <<>>)
         \o (IF HasTok(suggestion, spamPatterns) THEN <<MsgSpam>> ELSE <<>>)
         \o (IF professional /\ HasTok(suggestion, unprofessionalPatterns)
             THEN <<MsgUnprofessional>> ELSE <<>>)
         \o (IF StrLength(suggestion) < 2 THEN <<MsgTooShort>>
             ELSE IF StrLength(suggestion) > 500 THEN <<MsgTooLong>> ELSE <<>>)
         \o (IF containsPersonalInfo(suggestion) THEN <<MsgPersonal>> ELSE <<>>)
        has(m) == \E i \in 1..Len(issues) : issues[i] = m
        severity ==
            IF has(MsgInappropriate) \/ has(MsgPersonal) THEN "high"
            ELSE IF has(MsgUnprofessional) \/ has(MsgSpam) THEN "medium"
            ELSE "low"
    IN  [isValid |-> issues = <<>>, issues |-> issues, severity |-> severity]

makeProfessional(suggestion) ==
    RemoveTokens(MapTokens(suggestion, unprofessionalPatterns \ emojiClass,
                           "appreciate you"),
                 emojiClass)

\* the tokens before the first sentence terminator: split(/[.!?]+/)[0].trim()
RECURSIVE FirstSentence(_)
FirstSentence(s) ==
    IF s = <<>> \/ Head(s) = "." THEN <<>>
    ELSE <<Head(s)>> \o FirstSentence(Tail(s))

shortenResponse(suggestion) ==
    IF StrLength(suggestion) <= 100 THEN suggestion
    ELSE FirstSentence(suggestion) \o <<".">>

expandResponse(suggestion) ==
    IF StrLength(suggestion) >= 10 THEN suggestion
    ELSE IF suggestion = <<"ok">> THEN <<"Okay, sounds good!">>
    ELSE suggestion \o <<".", "Thanks for sharing that with me.">>

\* strips the characters outside [\w\s.,!?-]: "$5" becomes "5" and an emoji
\* is taken out
cleanupResponse(suggestion) ==
    RemoveTokens(MapTokens(suggestion, {"$5"}, "5"), emojiClass)

createSafeAlternative(originalSuggestion, safetyCheck) ==
    LET issue == safetyCheck.issues[1]
    IN  IF issue = MsgUnprofessional THEN makeProfessional(originalSuggestion)
        ELSE IF issue = MsgTooLong THEN shortenResponse(originalSuggestion)
        ELSE IF issue = MsgTooShort THEN expandResponse(originalSuggestion)
        ELSE IF safetyCheck.severity = "high" THEN Null
        ELSE cleanupResponse(originalSuggestion)

professionalFallbacks ==
    << <<"Thank you for your message.">>,
       <<"I understand. Let me get back to you on this.">>,
       <<"Thanks for the information.">> >>

casualFallbacks ==
    << <<"Thanks for letting me know!">>,
       <<"I understand.">>,
       <<"Got it, thanks for sharing.">> >>

\* a fallback taken from the casual pool whatever the context
getFallbackResponse_alwaysCasual(professional, rnd) == casualFallbacks[rnd]

\* getFallbackResponse; rnd is Math.floor(Math.random() * fallbacks.length) + 1
getFallbackResponse(professional, rnd) ==
    IF professional THEN professionalFallbacks[rnd] ELSE casualFallbacks[rnd]

RECURSIVE FilterLoop(_, _)
\* the for loop of validateAndFilter: the filtered suggestions, the issues
\* collected, and for every kept suggestion the candidate it was made from
FilterLoop(suggestions, professional) ==
    IF suggestions = <<>>
    THEN [filtered |-> <<>>, issues |-> <<>>, origin |-> <<>>]
    ELSE LET suggestion == Head(suggestions)
             rest == FilterLoop(Tail(suggestions), professional)
             safetyCheck == checkSafety(suggestion, professional)
             safeSuggestion == createSafeAlternative(suggestion, safetyCheck)
         IN  IF safetyCheck.isValid
             THEN [filtered |-> <<suggestion>> \o rest.filtered,
                   issues |-> rest.issues,
                   origin |-> <<suggestion>> \o rest.origin]
             ELSE IF safeSuggestion # Null /\ safeSuggestion # <<>>
             THEN [filtered |-> <<safeSuggestion>> \o rest.filtered,
                   issues |-> safetyCheck.issues \o rest.issues,
                   origin |-> <<suggestion>> \o rest.origin]
             ELSE [filtered |-> rest.filtered,
                   issues |-> safetyCheck.issues \o rest.issues,
                   origin |-> rest.origin]

\* validateAndFilter with the discounted confidence not floored at 0.3
validateAndFilter_noFloor(response, professional, rnd) ==
    IF ~response.iterable
    THEN [messageId |-> response.messageId,
          suggestions |-> <<getFallbackResponse(professional, rnd)>>,
          confidence |-> 500,
          reasoning |-> Undefined,
          messageType |-> Undefined,
          safetyIssues |-> <<MsgValidationError>>]
    ELSE LET loop == FilterLoop(response.suggestions, professional)
             filteredSuggestions ==
                 IF loop.filtered = <<>>
                 THEN <<getFallbackResponse(professional, rnd)>>
                 ELSE loop.filtered
             conf == IF response.confidence = 0 THEN 700 ELSE response.confidence
             adjustedConfidence ==
                 IF loop.issues # <<>>
                 THEN (conf * 7) \div 10
                 ELSE conf
         IN  [messageId |-> response.messageId,
              suggestions |-> filteredSuggestions,
              confidence |-> adjustedConfidence,
              reasoning |-> response.reasoning,
              messageType |-> response.messageType,
              safetyIssues |-> loop.issues]

\* validateAndFilter(response, conversationContext).  response.iterable is
\* FALSE when response.suggestions is a value a for-of loop throws on.
validateAndFilter(response, professional, rnd) ==
    IF ~response.iterable
    THEN [messageId |-> response.messageId,
          suggestions |-> <<getFallbackResponse(professional, rnd)>>,
          confidence |-> 500,
          reasoning |-> Undefined,
          messageType |-> Undefined,
          safetyIssues |-> <<MsgValidationError>>]
    ELSE LET loop == FilterLoop(response.suggestions, professional)
             filteredSuggestions ==
                 IF loop.filtered = <<>>
                 THEN <<getFallbackResponse(professional, rnd)>>
                 ELSE loop.filtered
             conf == IF response.confidence = 0 THEN 700 ELSE response.confidence
             adjustedConfidence ==
                 IF loop.issues # <<>>
                 THEN (IF (conf * 7) \div 10 > 300 THEN (conf * 7) \div 10 ELSE 300)
                 ELSE conf
         IN  [messageId |-> response.messageId,
              suggestions |-> filteredSuggestions,
              confidence |-> adjustedConfidence,
              reasoning |-> response.reasoning,
              messageType |-> response.messageType,
              safetyIssues |-> loop.issues]

-----------------------------------------------------------------------------
(* ResponseCache on top of the Redis service.                              *)

defaultTTL == 3600      \* seconds
MaxTicks == 2           \* clock advances in one behaviour
MaxSets == 2            \* completed cache writes in one behaviour

\* the clock advances by a millisecond, by half the default TTL or by the
\* default TTL
TickSteps == {1, (defaultTTL \div 2) * 1000, defaultTTL * 1000}

\* milliseconds between Date.now() in set and the moment Redis starts the
\* key's expiry timer
RedisLags == {2}

Contents == {<<"thanks">>, <<"can you", "help">>}
Users == {<<"u1">>, <<"u2">>}

\* a hashed text without the user id
HashInput_contentOnly(content, userId) == content \o <<":">>

\* the text generateCacheKey hashes: `${content}:${userId}`
HashInput(content, userId) == content \o <<":">> \o userId

\* createHash('sha256').update(text).digest('hex').substring(0, 16): the
\* digest is a text of hexadecimal digits, here cut to four; the texts that
\* are hashed have different digests
sha256Hex16(text) ==
    CASE text = <<"thanks", ":", "u1">> -> <<"3", "f", "a", "1">>
      [] text = <<"thanks", ":", "u2">> -> <<"b", "2", "5", "e">>
      [] text = <<"can you", "help", ":", "u1">> -> <<"0", "c", "d", "7">>
      [] text = <<"can you", "help", ":", "u2">> -> <<"9", "4", "6", "8">>
      [] OTHER -> <<"e", "3", "b", "0">>

\* a key made from the user id alone
generateCacheKey_userOnly(content, userId) ==
    <<"ai_response:">> \o sha256Hex16(<<":">> \o userId)

\* generateCacheKey: the key prefix followed by the digest
generateCacheKey(content, userId) ==
    <<"ai_response:">> \o sha256Hex16(HashInput(content, userId))

\* part occurs in text
Contains(text, part) ==
    \E i \in 1..(Len(text) - Len(part) + 1) :
        SubSeq(text, i, i + Len(part) - 1) = part

CacheKeys == {generateCacheKey(c, u) : c \in Contents, u \in Users}

NoEntry == [present |-> FALSE]
NoValue == [present |-> FALSE]

\* JSON.stringify of a CachedResponse: the members in order, an undefined
\* member is left out
JsonStringify(o) ==
       << <<"messageId", o.messageId>>, <<"suggestions", o.suggestions>>,
          <<"confidence", o.confidence>> >>
    \o (IF o.reasoning = Undefined THEN <<>> ELSE << <<"reasoning", o.reasoning>> >>)
    \o (IF o.messageType = Undefined THEN <<>> ELSE << <<"messageType", o.messageType>> >>)
    \o (IF o.safetyIssues = <<>> THEN <<>> ELSE << <<"safetyIssues", o.safetyIssues>> >>)
    \o << <<"timestamp", o.timestamp>>, <<"ttl", o.ttl>> >>

JsonMember(text, name, default) ==
    IF \E i \in 1..Len(text) : text[i][1] = name
    THEN text[CHOOSE i \in 1..Len(text) : text[i][1] = name][2]
    ELSE default

\* JSON.parse of a stored CachedResponse; a missing member reads as undefined
JsonParse(text) ==
    [messageId |-> JsonMember(text, "messageId", Undefined),
     suggestions |-> JsonMember(text, "suggestions", <<>>),
     confidence |-> JsonMember(text, "confidence", 0),
     reasoning |-> JsonMember(text, "reasoning", Undefined),
     messageType |-> JsonMember(text, "messageType", Undefined),
     safetyIssues |-> JsonMember(text, "safetyIssues", <<>>),
     timestamp |-> JsonMember(text, "timestamp", 0),
     ttl |-> JsonMember(text, "ttl", 0)]

\* redis.get(key): Redis does not return a key whose expiry time has come
redisGet(st, key, t) ==
    IF st[key].present /\ t < st[key].expireAt THEN st[key] ELSE NoEntry

\* get that answers null for a stale entry and leaves it in the store
CacheGet_noEviction(st, content, userId, t, up) ==
    LET key == generateCacheKey(content, userId)
        cached == redisGet(st, key, t)
        response == JsonParse(cached.json)
    IN  IF ~up \/ ~cached.present
        THEN [value |-> NoValue, store |-> st]
        ELSE IF t - response.timestamp > response.ttl * 1000
        THEN [value |-> NoValue, store |-> st]
        ELSE [value |-> [present |-> TRUE, response |-> response], store |-> st]

\* get with the age of the entry compared to its ttl taken as milliseconds
CacheGet_ttlInMillis(st, content, userId, t, up) ==
    LET key == generateCacheKey(content, userId)
        cached == redisGet(st, key, t)
        response == JsonParse(cached.json)
    IN  IF ~up \/ ~cached.present
        THEN [value |-> NoValue, store |-> st]
        ELSE IF t - response.timestamp > response.ttl
        THEN [value |-> NoValue, store |-> [st EXCEPT ![key] = NoEntry]]
        ELSE [value |-> [present |-> TRUE, response |-> response], store |-> st]

\* ResponseCache.get(content, userId) at time t; up is FALSE when the Redis
\* call throws.  Yields the CachedResponse (or NoValue for null) and the
\* store after the call.
CacheGet(st, content, userId, t, up) ==
    LET key == generateCacheKey(content, userId)
        cached == redisGet(st, key, t)
        response == JsonParse(cached.json)
    IN  IF ~up \/ ~cached.present
        THEN [value |-> NoValue, store |-> st]
        ELSE IF t - response.timestamp > response.ttl * 1000
        THEN [value |-> NoValue, store |-> [st EXCEPT ![key] = NoEntry]]
        ELSE [value |-> [present |-> TRUE, response |-> response], store |-> st]

\* set that hands Redis the ttl as a number of milliseconds
CacheSet_expiryInMillis(st, content, userId, response, ttl, t, lag, up) ==
    LET key == generateCacheKey(content, userId)
        cacheData == [messageId |-> response.messageId,
                      suggestions |-> response.suggestions,
                      confidence |-> response.confidence,
                      reasoning |-> response.reasoning,
                      messageType |-> response.messageType,
                      safetyIssues |-> response.safetyIssues,
                      timestamp |-> t,
                      ttl |-> IF ttl = 0 THEN defaultTTL ELSE ttl]
    IN  IF ~up THEN st
        ELSE [st EXCEPT ![key] = [present |-> TRUE,
                                  json |-> JsonStringify(cacheData),
                                  expireAt |-> t + lag + cacheData.ttl]]

\* ResponseCache.set(content, userId, response, ttl) at time t; ttl = 0
\* stands for an omitted ttl.  The store after the call.
CacheSet(st, content, userId, response, ttl, t, lag, up) ==
    LET key == generateCacheKey(content, userId)
        cacheData == [messageId |-> response.messageId,
                      suggestions |-> response.suggestions,
                      confidence |-> response.confidence,
                      reasoning |-> response.reasoning,
                      messageType |-> response.messageType,
                      safetyIssues |-> response.safetyIssues,
                      timestamp |-> t,
                      ttl |-> IF ttl = 0 THEN defaultTTL ELSE ttl]
    IN  IF ~up THEN st
        ELSE [st EXCEPT ![key] = [present |-> TRUE,
                                  json |-> JsonStringify(cacheData),
                                  expireAt |-> t + lag + cacheData.ttl * 1000]]

\* ResponseCache.delete(content, userId)
CacheDelete(st, content, userId, up) ==
    IF ~up THEN st ELSE [st EXCEPT ![generateCacheKey(content, userId)] = NoEntry]

\* redis.keys(`ai_response:*${userId}*`) at time t: the keys that have the
\* prefix and userId somewhere after it
redisKeys(st, userId, t) ==
    {k \in DOMAIN st : redisGet(st, k, t).present /\ Contains(Tail(k), userId)}

\* ResponseCache.clearUserCache(userId): the stores the call can leave.
\* redis.del(...keys) reaches RedisService.del(key), which deletes its first
\* argument only, and Redis returns the keys in no particular order.
CacheClearUser(st, userId, t, up) ==
    LET keys == redisKeys(st, userId, t)
    IN  IF ~up \/ keys = {}
        THEN {st}
        ELSE {[st EXCEPT ![k] = NoEntry] : k \in keys}

\* ResponseCache.getStats(): redis.keys succeeds on an available store, but
\* RedisService has no info method, so the call of redis.info throws and
\* the catch block answers
CacheGetStats(st, t, up) ==
    LET keys == redisKeys(st, <<>>, t)
        infoThrows == TRUE
    IN  IF ~up \/ infoThrows
        THEN [totalKeys |-> 0, memoryUsage |-> "unknown"]
        ELSE [totalKeys |-> Cardinality(keys), memoryUsage |-> "unknown"]

\* a calculateTTL whose second step is lower than its first
calculateTTL_lowSecondStep(confidence) ==
    IF confidence >= 900 THEN defaultTTL * 4
    ELSE IF confidence >= 700 THEN defaultTTL \div 4
    ELSE IF confidence >= 500 THEN defaultTTL
    ELSE defaultTTL \div 2

\* ResponseCache.calculateTTL(confidence), in seconds; only
\* setWithConfidenceTTL calls it, and nothing calls setWithConfidenceTTL
calculateTTL(confidence) ==
    IF confidence >= 900 THEN defaultTTL * 4
    ELSE IF confidence >= 700 THEN defaultTTL * 2
    ELSE IF confidence >= 500 THEN defaultTTL
    ELSE defaultTTL \div 2

-----------------------------------------------------------------------------
(* WhatsAppAuthService and SessionMonitorService.                          *)

SessionIds == {"s1", "s2"}

MAX_FAILURES == 3

NoHealth == [status |-> "absent", consecutiveFailures |-> 0]

SessionIdle ==
    /\ clients = [s \in SessionIds |-> "none"]
    /\ sessions = [s \in SessionIds |-> "absent"]
    /\ sessionHealth = [s \in SessionIds |-> NoHealth]
    /\ reconnectTimers = [s \in SessionIds |-> 0]
    /\ isActive = [s \in SessionIds |-> FALSE]
    /\ lastReconnect = NoCall

\* WhatsAppAuthService.createSession(userId, sessionId) on the maps cl and ss:
\* it throws when the map of clients has the id, and otherwise stores an
\* initializing session and a new client
createSession(cl, ss, s) ==
    IF cl[s] # "none"
    THEN [threw |-> TRUE, clients |-> cl, sessions |-> ss]
    ELSE [threw |-> FALSE,
          clients |-> [cl EXCEPT ![s] = "initializing"],
          sessions |-> [ss EXCEPT ![s] = "initializing"]]

\* WhatsAppAuthService.isSessionConnected(sessionId)
isSessionConnected(cl, ss, s) == cl[s] # "none" /\ ss[s] = "ready"

\* SessionMonitorService.updateSessionHealth(sessionId, status)
updateSessionHealth(h, s, status) ==
    [h EXCEPT ![s] = [status |-> status,
                      consecutiveFailures |->
                          IF status = "healthy" THEN 0 ELSE @.consecutiveFailures]]

\* SessionMonitorService.attemptReconnect(sessionId): the maps after the call
\* and what it did.  The error createSession throws is caught and logged.
attemptReconnect(cl, ss, h, s) ==
    LET made == createSession(cl, ss, s)
    IN  IF ss[s] = "absent"
        THEN [clients |-> cl, sessions |-> ss, sessionHealth |-> h,
              outcome |-> "not found"]
        ELSE IF ss[s] \notin {"ready", "disconnected"}
        THEN [clients |-> cl, sessions |-> ss, sessionHealth |-> h,
              outcome |-> "skipped"]
        ELSE IF made.threw
        THEN [clients |-> cl, sessions |-> ss, sessionHealth |-> h,
              outcome |-> "Session already exists"]
        ELSE [clients |-> made.clients, sessions |-> made.sessions,
              sessionHealth |-> updateSessionHealth(h, s, "warning"),
              outcome |-> "created"]

\* the health checkSession computes for a session
checkedHealth(cl, ss, h, s) ==
    LET health == h[s]
    IN  IF cl[s] = "none"
        THEN [status |-> "disconnected",
              consecutiveFailures |-> health.consecutiveFailures + 1]
        ELSE IF ~isSessionConnected(cl, ss, s)
        THEN [status |-> IF health.consecutiveFailures + 1 >= MAX_FAILURES
                         THEN "critical" ELSE "warning",
              consecutiveFailures |-> health.consecutiveFailures + 1]
        ELSE [status |-> "healthy", consecutiveFailures |-> 0]

\* SessionMonitorService.checkSession(sessionId, userId) with
\* handleUnhealthySession: the maps after the call, the row's isActive and
\* what the reconnect attempt of a critical session did
checkSession(cl, ss, h, s) ==
    LET health == checkedHealth(cl, ss, h, s)
        h2 == [h EXCEPT ![s] = health]
        again == attemptReconnect(cl, ss, h2, s)
    IN  IF health.status = "critical"
        THEN [clients |-> again.clients, sessions |-> again.sessions,
              sessionHealth |-> again.sessionHealth, isActive |-> FALSE,
              outcome |-> again.outcome]
        ELSE [clients |-> cl, sessions |-> ss, sessionHealth |-> h2,
              isActive |-> health.status # "disconnected", outcome |-> "none"]

\* the callers whose steps the eviction is followed through
EvictCallers == {"get", "cleanup"}

\* a caller between two calls
NoPending == [pc |-> "idle", key |-> <<>>, keys |-> {}, cached |-> NoEntry]

EvictIdle == pending = [c \in EvictCallers |-> NoPending]

CacheIdle ==
    /\ store = [k \in CacheKeys |-> NoEntry]
    /\ now = 0
    /\ ticks = 0
    /\ sets = 0
    /\ written = [k \in CacheKeys |-> NoValue]
    /\ lastGet = [called |-> FALSE]
    /\ lastOp = NoCall

Tick ==
    /\ ticks < MaxTicks
    /\ \E d \in TickSteps : now' = now + d
    /\ ticks' = ticks + 1
    /\ lastGet' = NoCall
    /\ lastOp' = NoCall
    /\ UNCHANGED <<store, sets, written, safetyVars, parseVars, genVars, queueVars, templateVars, feedbackVars, contextVars, retryVars, ingestVars, evictVars, sessionVars>>

\* the (content, userId) pairs callers use: two contents of one user and one
\* content of two users
CachePairs == {p \in Contents \X Users : p[1] = <<"thanks">> \/ p[2] = <<"u1">>}

\* what the last cache operation did: the keys Redis no longer returns, and
\* whether the store is another one than before
OpRecord(op, userId, up, st, st2, t, totalKeys) ==
    [called |-> TRUE, op |-> op, userId |-> userId, up |-> up,
     changed |-> st2 # st,
     removed |-> {k \in DOMAIN st : redisGet(st, k, t).present
                                    /\ ~redisGet(st2, k, t).present},
     totalKeys |-> totalKeys]

CacheDeleteCall ==
    \E pair \in CachePairs, up \in BOOLEAN :
        LET content == pair[1]
            userId == pair[2]
            key == generateCacheKey(content, userId)
            st2 == CacheDelete(store, content, userId, up)
        IN  /\ store' = st2
            /\ written' = IF up THEN [written EXCEPT ![key] = NoValue] ELSE written
            /\ lastGet' = NoCall
            /\ lastOp' = OpRecord("delete", userId, up, store, st2, now, 0)
            /\ UNCHANGED <<now, ticks, sets, safetyVars, parseVars, genVars, queueVars, templateVars, feedbackVars, contextVars, retryVars, ingestVars, evictVars, sessionVars>>

CacheClearUserCall ==
    \E userId \in Users, up \in BOOLEAN :
        \E st2 \in CacheClearUser(store, userId, now, up) :
            /\ store' = st2
            /\ written' = [k \in CacheKeys |->
                              IF st2[k] # store[k] THEN NoValue ELSE written[k]]
            /\ lastGet' = NoCall
            /\ lastOp' = OpRecord("clearUserCache", userId, up, store, st2, now, 0)
            /\ UNCHANGED <<now, ticks, sets, safetyVars, parseVars, genVars, queueVars, templateVars, feedbackVars, contextVars, retryVars, ingestVars, evictVars, sessionVars>>

CacheGetStatsCall ==
    \E up \in BOOLEAN :
        /\ lastGet' = NoCall
        /\ lastOp' = OpRecord("getStats", <<>>, up, store, store, now,
                              CacheGetStats(store, now, up).totalKeys)
        /\ UNCHANGED <<store, now, ticks, sets, written, safetyVars, parseVars, genVars,
                       queueVars, templateVars, feedbackVars, contextVars, retryVars, ingestVars, evictVars, sessionVars>>

-----------------------------------------------------------------------------
(* MessageQueueService: the 'messages' queue and its fan-out.              *)

MaxMessages == 1        \* messages ingested

MessageIds == 1..MaxMessages

\* defaultJobOptions.attempts
attempts == 3

SubQueues == {"ai-responses", "promise-detection", "contact-inference"}

ContactIds == {Undefined, "c1"}

NoJob == [state |-> "absent", fromMe |-> FALSE, contactId |-> Undefined,
          attemptsMade |-> 0, result |-> NoCall]

QueueIdle ==
    /\ msgJobs = [m \in MessageIds |-> NoJob]
    /\ subJobs = [q \in SubQueues |-> [m \in MessageIds |-> 0]]
    /\ lastRun = NoCall

\* the body of processMessageJob with every sub-job added for every message
SubJobPlan_noSelfCheck(data) ==
    [skip |-> FALSE, queues |-> SubQueues]

\* what processMessageJob does with the data of a job: it returns at once
\* (skip) for a message from self, and otherwise calls the add function of
\* each of these sub-queues
SubJobPlan(data) ==
    IF data.fromMe
    THEN [skip |-> TRUE, queues |-> {}]
    ELSE [skip |-> FALSE,
          queues |-> (IF ~data.fromMe THEN {"ai-responses"} ELSE {})
                     \cup {"promise-detection"}
                     \cup (IF data.contactId # Undefined /\ ~data.fromMe
                           THEN {"contact-inference"} ELSE {})]

\* addMessage(message): the ingestion puts a job on the 'messages' queue
addMessage(m) ==
    /\ msgJobs[m].state = "absent"
    /\ \A k \in MessageIds : k < m => msgJobs[k].state # "absent"
    /\ \E fromMe \in BOOLEAN, contactId \in ContactIds :
           msgJobs' = [msgJobs EXCEPT ![m] =
               [NoJob EXCEPT !.state = "waiting", !.fromMe = fromMe,
                             !.contactId = contactId]]
    /\ UNCHANGED <<subJobs, lastRun, cacheVars, genVars, safetyVars, parseVars, templateVars, feedbackVars, contextVars, retryVars, ingestVars, evictVars, sessionVars>>

\* a count of sub-jobs that does not depend on the promises
subJobsCount_always3(promises) == 3

\* promises.length, reported as subJobs
subJobsCount(promises) == Cardinality(promises)

\* the adds that fail in one execution: none, one of them, or all of them
Failures(queues) == {{}, queues} \cup {{q} : q \in queues}

\* the queue runs processMessageJob on a waiting job; an add of a sub-job
\* may fail (the jobs of the other adds are enqueued all the same), and a
\* failure makes the handler throw: the job is retried until it has made
\* all its attempts
processMessageJob(m) ==
    /\ msgJobs[m].state = "waiting"
    /\ LET data == msgJobs[m]
           plan == SubJobPlan(data)
       IN  \E failing \in Failures(plan.queues) :
             LET promises == plan.queues
                 thrown == failing # {}
                 made == data.attemptsMade + 1
                 result == IF plan.skip
                           THEN [processed |-> FALSE, reason |-> "self_message",
                                 subJobs |-> 0]
                           ELSE [processed |-> TRUE, reason |-> Undefined,
                                 subJobs |-> subJobsCount(promises)]
             IN  /\ subJobs' = [q \in SubQueues |->
                                   IF q \in promises \ failing
                                   THEN [subJobs[q] EXCEPT ![m] = @ + 1]
                                   ELSE subJobs[q]]
                 /\ msgJobs' = [msgJobs EXCEPT ![m] =
                        IF ~thrown
                        THEN [data EXCEPT !.state = "completed", !.result = result]
                        ELSE [data EXCEPT !.attemptsMade = made,
                                          !.state = IF made < attempts
                                                    THEN "waiting" ELSE "failed"]]
                 /\ lastRun' = [called |-> TRUE, messageId |-> m,
                                fromMe |-> data.fromMe,
                                contactId |-> data.contactId,
                                outcome |-> IF thrown THEN "thrown" ELSE "completed",
                                result |-> IF thrown THEN NoCall ELSE result,
                                before |-> [q \in SubQueues |-> subJobs[q][m]]]
    /\ UNCHANGED <<cacheVars, genVars, safetyVars, parseVars, templateVars, feedbackVars, contextVars, retryVars, ingestVars, evictVars, sessionVars>>

-----------------------------------------------------------------------------
(* MessageQueueService: the jobs of the queue 'ai-responses' under the     *)
(* job options of createQueue.  A job that throws is moved to the delayed  *)
(* set for its backoff while it has attempts left, and to the failed set   *)
(* otherwise; the queue promotes a delayed job when its delay has passed.  *)

MaxJobs == 1            \* jobs added to the queue 'ai-responses'
MaxSeconds == 9         \* seconds of time that pass

JobIds == 1..MaxJobs

\* defaultJobOptions.backoff.delay
backoffDelay == 2000

\* the delay option of addAIResponseJob
aiResponseDelay == 1000

\* a backoff of type 'fixed'
backoff_fixed(attemptsMade) == backoffDelay

\* the backoff of type 'exponential' after attemptsMade failed attempts
backoff(attemptsMade) == (2 ^ attemptsMade - 1) * backoffDelay

NoAIJob == [state |-> "absent", attemptsMade |-> 0, delayUntil |-> 0,
            executions |-> <<>>]

RetryIdle ==
    /\ aiJobs = [j \in JobIds |-> NoAIJob]
    /\ clock = 0

\* addAIResponseJob(data): queue.add with delay 1000
addAIResponseJob(j) ==
    /\ aiJobs[j].state = "absent"
    /\ \A k \in JobIds : k < j => aiJobs[k].state # "absent"
    /\ aiJobs' = [aiJobs EXCEPT ![j] =
           [NoAIJob EXCEPT !.state = "delayed",
                           !.delayUntil = clock + aiResponseDelay]]
    /\ UNCHANGED <<clock, cacheVars, genVars, safetyVars, parseVars, queueVars,
                   templateVars, feedbackVars, contextVars, ingestVars, evictVars, sessionVars>>

\* the queue moves a delayed job whose delay has passed to the waiting jobs
promoteDelayed(j) ==
    /\ aiJobs[j].state = "delayed"
    /\ clock >= aiJobs[j].delayUntil
    /\ aiJobs' = [aiJobs EXCEPT ![j].state = "waiting"]
    /\ UNCHANGED <<clock, cacheVars, genVars, safetyVars, parseVars, queueVars,
                   templateVars, feedbackVars, contextVars, ingestVars, evictVars, sessionVars>>

\* the queue runs processAIResponseJob on a waiting job: generateResponse
\* returns, and the job is completed, or it throws, the handler logs and
\* rethrows, and the job is delayed for its backoff or failed
processAIResponseJob(j) ==
    /\ aiJobs[j].state = "waiting"
    /\ \E thrown \in BOOLEAN :
         LET job == aiJobs[j]
             made == job.attemptsMade + 1
             retried == thrown /\ made < attempts
             wait == IF retried THEN backoff(made) ELSE 0
         IN  aiJobs' = [aiJobs EXCEPT ![j] =
                 [state |-> IF ~thrown THEN "completed"
                            ELSE IF retried THEN "delayed" ELSE "failed",
                  attemptsMade |-> IF thrown THEN made ELSE job.attemptsMade,
                  delayUntil |-> IF retried THEN clock + wait ELSE job.delayUntil,
                  executions |-> Append(job.executions,
                      [at |-> clock,
                       outcome |-> IF thrown THEN "thrown" ELSE "returned",
                       backoff |-> wait])]]
    /\ UNCHANGED <<clock, cacheVars, genVars, safetyVars, parseVars, queueVars,
                   templateVars, feedbackVars, contextVars, ingestVars, evictVars, sessionVars>>

\* a second passes
RetryTick ==
    /\ clock < MaxSeconds * 1000
    /\ clock' = clock + 1000
    /\ UNCHANGED <<aiJobs, cacheVars, genVars, safetyVars, parseVars, queueVars,
                   templateVars, feedbackVars, contextVars, ingestVars, evictVars, sessionVars>>

-----------------------------------------------------------------------------
(* MessageIngestionService.handleIncomingMessage and its set of the        *)
(* messages being processed, for the deliveries of one message.            *)

MaxIngestSeconds == 10  \* seconds of time that pass

\* `${sessionId}-${message.id._serialized}`
messageKey == "session-123-msg-1"

\* the delay of the setTimeout of the finally block
cleanupDelay == 5000

Never == 0 - 1

IngestIdle ==
    /\ processingMessages = {}
    /\ cleanupTimers = {}
    /\ ingestNow = 0
    /\ handling = 0
    /\ lastDelivery = NoCall

\* the finally block: it runs on every way out of the try block, the
\* return of a skipped duplicate included
finallyBlock(skipped) == cleanupTimers \cup {ingestNow + cleanupDelay}

\* handleIncomingMessage up to its first await: a delivery whose key is in
\* the set returns at once, through the finally block; otherwise the key is
\* added and the handler goes on
handleIncomingMessage ==
    /\ LET skipped == messageKey \in processingMessages
           since == IF lastDelivery.called /\ lastDelivery.accepted # Never
                    THEN ingestNow - lastDelivery.accepted ELSE Never
       IN  /\ lastDelivery' = [called |-> TRUE, at |-> ingestNow, skipped |-> skipped,
                               since |-> since,
                               accepted |-> IF skipped THEN lastDelivery.accepted
                                            ELSE ingestNow]
           /\ processingMessages' = processingMessages \cup {messageKey}
           /\ cleanupTimers' = IF skipped THEN finallyBlock(TRUE) ELSE cleanupTimers
           /\ handling' = IF skipped THEN handling ELSE handling + 1
    /\ UNCHANGED <<ingestNow, cacheVars, genVars, safetyVars, parseVars, queueVars,
                   templateVars, feedbackVars, contextVars, retryVars, evictVars, sessionVars>>

\* the rest of the handler of an accepted delivery: the session is found
\* and the message is added to the queue, stored and broadcast, or the
\* handler returns or throws before; then the finally block
finishIncomingMessage ==
    /\ handling > 0
    /\ handling' = handling - 1
    /\ cleanupTimers' = finallyBlock(FALSE)
    /\ UNCHANGED <<processingMessages, ingestNow, lastDelivery, cacheVars, genVars,
                   safetyVars, parseVars, queueVars, templateVars, feedbackVars,
                   contextVars, retryVars, evictVars, sessionVars>>

\* a timer is due: its callback deletes the key
cleanupTimerFires ==
    /\ ingestNow \in cleanupTimers
    /\ cleanupTimers' = cleanupTimers \ {ingestNow}
    /\ processingMessages' = processingMessages \ {messageKey}
    /\ UNCHANGED <<ingestNow, handling, lastDelivery, cacheVars, genVars,
                   safetyVars, parseVars, queueVars, templateVars, feedbackVars,
                   contextVars, retryVars, evictVars, sessionVars>>

\* a second passes; a timer that is due fires first
IngestTick ==
    /\ ingestNow < MaxIngestSeconds * 1000
    /\ ingestNow \notin cleanupTimers
    /\ ingestNow' = ingestNow + 1000
    /\ UNCHANGED <<processingMessages, cleanupTimers, handling, lastDelivery, cacheVars,
                   genVars, safetyVars, parseVars, queueVars, templateVars,
                   feedbackVars, contextVars, retryVars, evictVars, sessionVars>>

-----------------------------------------------------------------------------
(* AIProcessor feedback and analytics on the table ai_suggestions.  A row  *)
(* is inserted by storeSuggestions or by a client of the database; the     *)
(* table is a map from row ids to rows.                                    *)

MaxRows == 2            \* rows of the table ai_suggestions

SqlNull == "<sql null>"
NoRow == [present |-> FALSE]
RowIds == 1..MaxRows
EmptyTable == [id \in RowIds |-> NoRow]

\* the default date range of getAnalytics: seven days, in milliseconds
Week == 7 * 24 * 60 * 60 * 1000

\* the row storeSuggestions inserts; selected_index, feedback and
\* custom_response are not given and read as null
NewRow(messageId, userId, t) ==
    [present |-> TRUE, message_id |-> messageId, user_id |-> userId,
     selected_index |-> SqlNull, feedback |-> SqlNull, custom_response |-> SqlNull,
     created_at |-> t, updated_at |-> t]

\* updateFeedback that changes a row only while it has no feedback yet
updateFeedback_onlyFirst(table, messageId, userId, selectedIndex, feedback, customResponse, t, applied) ==
    [id \in DOMAIN table |->
        IF /\ applied
           /\ table[id].present
           /\ table[id].message_id = messageId
           /\ table[id].user_id = userId
           /\ table[id].feedback = SqlNull
           /\ table[id].selected_index = SqlNull
           /\ table[id].custom_response = SqlNull
        THEN [table[id] EXCEPT
                 !.selected_index = IF selectedIndex = Undefined THEN @ ELSE selectedIndex,
                 !.feedback = IF feedback = Undefined THEN @ ELSE feedback,
                 !.custom_response = IF customResponse = Undefined THEN @
                                     ELSE customResponse,
                 !.updated_at = t]
        ELSE table[id]]

\* updateFeedback(messageId, userId, selectedIndex, feedback, customResponse)
\* at time t: every row with the message id and the user id is updated; an
\* undefined argument is left out of the request and its column keeps its
\* value.  applied is FALSE when the database rejects the request or cannot
\* be reached; the error is logged or ignored and no row changes.
updateFeedback(table, messageId, userId, selectedIndex, feedback, customResponse, t, applied) ==
    [id \in DOMAIN table |->
        IF /\ applied
           /\ table[id].present
           /\ table[id].message_id = messageId
           /\ table[id].user_id = userId
        THEN [table[id] EXCEPT
                 !.selected_index = IF selectedIndex = Undefined THEN @ ELSE selectedIndex,
                 !.feedback = IF feedback = Undefined THEN @ ELSE feedback,
                 !.custom_response = IF customResponse = Undefined THEN @
                                     ELSE customResponse,
                 !.updated_at = t]
        ELSE table[id]]

\* getAnalytics(userId) with the default date range, at time t
getAnalytics(table, userId, t) ==
    LET data == {id \in DOMAIN table :
                    /\ table[id].present
                    /\ table[id].user_id = userId
                    /\ table[id].created_at >= t - Week
                    /\ table[id].created_at <= t}
    IN  [totalSuggestions |-> Cardinality(data),
         selected |-> Cardinality({id \in data : table[id].selected_index # SqlNull}),
         messageIds |-> {table[id].message_id : id \in data}]

FeedbackIdle ==
    /\ aiSuggestions = EmptyTable
    /\ fb = NoCall
    /\ fbStats = NoCall

-----------------------------------------------------------------------------
(* The table messages: rows stored by the ingestion service, revoked by    *)
(* its revoke handler and read by ContextBuilder.                          *)

MaxStored == 2          \* rows of the table messages
MaxStamp == 2           \* timestamps of the stored messages

WhatsappIds == 1..MaxStored
Chats == {"c1", "c2"}
NoMessage == [present |-> FALSE]

\* the row of a newly stored message: is_deleted has its default FALSE
StoredMessage(chatId, userId, timestamp) ==
    [present |-> TRUE, chat_id |-> chatId, user_id |-> userId,
     timestamp |-> timestamp, content |-> "text", is_deleted |-> FALSE,
     metadata |-> [deleted |-> FALSE]]

\* handleMessageRevoke: the update of the row with the message's id; when
\* there is no such row the update throws and the error is logged
handleMessageRevoke(table, whatsappId) ==
    IF table[whatsappId].present
    THEN [table EXCEPT ![whatsappId].content = "[Message deleted]",
                       ![whatsappId].metadata = [deleted |-> TRUE]]
    ELSE table

\* the orders in which the database may return the rows ids, sorted by
\* timestamp descending; rows with equal timestamps come in any order
DescendingOrders(table, ids) ==
    {order \in [1..Cardinality(ids) -> ids] :
        /\ \A i, j \in DOMAIN order : i # j => order[i] # order[j]
        /\ \A i, j \in DOMAIN order :
               i < j => table[order[i]].timestamp >= table[order[j]].timestamp}

\* Array.prototype.reverse
Reverse(s) == [i \in 1..Len(s) |-> s[Len(s) + 1 - i]]

\* getRecentMessages(chatId, userId, limit): the possible results, each a
\* sequence of message ids
getRecentMessages(table, chatId, userId, limit) ==
    LET ids == {id \in DOMAIN table :
                   /\ table[id].present
                   /\ table[id].chat_id = chatId
                   /\ table[id].user_id = userId
                   /\ table[id].is_deleted = FALSE}
    IN  {Reverse(SubSeq(order, 1, IF Len(order) < limit THEN Len(order) ELSE limit)) :
            order \in DescendingOrders(table, ids)}

\* buildContext(messageId, userId, maxMessages): the possible values of the
\* messages of the context; the minimal context when the message is not
\* found or the database fails
buildContext(table, messageId, userId, maxMessages, failed) ==
    IF failed \/ ~table[messageId].present THEN {<<>>}
    ELSE getRecentMessages(table, table[messageId].chat_id, userId, maxMessages)

\* the limit of the query of calculateAverageResponseTime
responseTimeLimit == 20

\* 24 * 60 * 60 * 1000
DayMillis == 86400000

\* lines 220-235: the loop over the messages from the second to the last,
\* collecting the response times; the result is their sum and their number
RECURSIVE responseTimes(_, _)
responseTimes(messages, i) ==
    IF i < 2 THEN [sum |-> 0, count |-> 0]
    ELSE LET before == responseTimes(messages, i - 1)
             current == messages[i]
             previous == messages[i - 1]
             responseTime == current.timestamp - previous.timestamp
         IN  IF /\ current.from_me /\ ~previous.from_me
                /\ responseTime > 0 /\ responseTime < DayMillis
             THEN [sum |-> before.sum + responseTime, count |-> before.count + 1]
             ELSE before

\* a calculateAverageResponseTime that needs two response times
calculateAverageResponseTime_needsTwo(rows) ==
    LET messages == SubSeq(rows, 1, IF Len(rows) < responseTimeLimit
                                    THEN Len(rows) ELSE responseTimeLimit)
        times == responseTimes(messages, Len(messages))
    IN  IF Len(messages) < 4 THEN [absent |-> TRUE, sum |-> 0, count |-> 0]
        ELSE IF times.count < 2 THEN [absent |-> TRUE, sum |-> 0, count |-> 0]
        ELSE [absent |-> FALSE, sum |-> times.sum, count |-> times.count]

\* calculateAverageResponseTime on the rows of a chat in ascending order of
\* timestamp; the average is the quotient sum / count
calculateAverageResponseTime(rows) ==
    LET messages == SubSeq(rows, 1, IF Len(rows) < responseTimeLimit
                                    THEN Len(rows) ELSE responseTimeLimit)
        times == responseTimes(messages, Len(messages))
    IN  IF Len(messages) < 4 THEN [absent |-> TRUE, sum |-> 0, count |-> 0]
        ELSE IF times.count = 0 THEN [absent |-> TRUE, sum |-> 0, count |-> 0]
        ELSE [absent |-> FALSE, sum |-> times.sum, count |-> times.count]

ContextIdle ==
    /\ dbMessages = [id \in WhatsappIds |-> NoMessage]
    /\ ctxCall = NoCall

-----------------------------------------------------------------------------
(* PromptTemplates.detectMessageType.  A content is a sequence of words;   *)
(* each set holds the words that contain a marker of the category.         *)

questionMarkers == {"?", "can you", "could you", "would you"}
questionStarts == {"how", "what", "when", "where", "why", "who"}
invitationMarkers == {"invite", "join us", "come to", "event", "party", "dinner",
                      "meeting", "available"}
appreciationMarkers == {"thanks", "thank", "appreciate", "grateful", "awesome",
                        "amazing", "great job", "well done"}
concernMarkers == {"sorry", "sad", "worried", "problem", "difficult", "help",
                   "support", "stressed"}
businessMarkers == {"project", "deadline", "meeting", "budget", "contract",
                    "proposal", "client", "business"}

\* String.prototype.toLowerCase of a word
LowerWord(w) ==
    CASE w = "Can you" -> "can you"
      [] w = "How" -> "how"
      [] w = "Thanks" -> "thanks"
      [] OTHER -> w

\* content.toLowerCase()
toLowerCase(content) == [i \in 1..Len(content) |-> LowerWord(content[i])]

\* detectMessageType with the business markers looked at before the others
detectMessageType_businessFirst(content) ==
    LET lowerContent == toLowerCase(content)
    IN  IF HasTok(lowerContent, businessMarkers) THEN "business"
        ELSE IF HasTok(lowerContent, questionMarkers)
           \/ (Len(lowerContent) > 1 /\ lowerContent[1] \in questionStarts)
        THEN "question"
        ELSE IF HasTok(lowerContent, invitationMarkers) THEN "invitation"
        ELSE IF HasTok(lowerContent, appreciationMarkers) THEN "appreciation"
        ELSE IF HasTok(lowerContent, concernMarkers) THEN "concern"
        ELSE "social"

detectMessageType(content) ==
    LET lowerContent == toLowerCase(content)
    IN  IF HasTok(lowerContent, questionMarkers)
           \/ (Len(lowerContent) > 1 /\ lowerContent[1] \in questionStarts)
        THEN "question"
        ELSE IF HasTok(lowerContent, invitationMarkers) THEN "invitation"
        ELSE IF HasTok(lowerContent, appreciationMarkers) THEN "appreciation"
        ELSE IF HasTok(lowerContent, concernMarkers) THEN "concern"
        ELSE IF HasTok(lowerContent, businessMarkers) THEN "business"
        ELSE "social"

\* the keys of PromptTemplates.templates after initializeTemplates; a
\* template is named by its key
templates ==
    {"general", "question", "invitation", "appreciation", "concern", "business",
     "social", "group"}

\* templateMap of getTemplate: message type -> template key
templateMap ==
    [question |-> "question", invitation |-> "invitation", event |-> "invitation",
     appreciation |-> "appreciation", thanks |-> "appreciation",
     compliment |-> "appreciation", concern |-> "concern", support |-> "concern",
     sadness |-> "concern", business |-> "business", work |-> "business",
     professional |-> "business", social |-> "social", casual |-> "social",
     friendly |-> "social"]

\* this.templates.get(key) || this.templates.get('general')
TemplateOrGeneral(key) == IF key \in templates THEN key ELSE "general"

\* names templateMap[messageType] finds on Object.prototype: the value is
\* truthy and is no key of templates
inheritedProperties == {"constructor"}

\* getTemplate that looks at the message type before the chat type
getTemplate_typeFirst(messageType, chatType) ==
    IF messageType \in DOMAIN templateMap
    THEN TemplateOrGeneral(templateMap[messageType])
    ELSE IF chatType = "group" THEN TemplateOrGeneral("group")
    ELSE TemplateOrGeneral("general")

\* getTemplate(messageType, context); chatType is context.chatType
getTemplate(messageType, chatType) ==
    IF chatType = "group" THEN TemplateOrGeneral("group")
    ELSE LET templateKey == IF messageType \in DOMAIN templateMap
                            THEN templateMap[messageType]
                            ELSE IF messageType \in inheritedProperties
                            THEN "<function>"
                            ELSE "general"
         IN  TemplateOrGeneral(templateKey)

TemplateIdle == tplIn = NoCall /\ tplOut = NoCall

-----------------------------------------------------------------------------
(* AIProcessor.generateResponse.                                           *)

MaxChunks == 2          \* chunks of one streamed completion

\* the message ids of the calls, in the order the calls are made
Requests == <<"m1", "m2">>
RequestIds == {Requests[i] : i \in 1..Len(Requests)}

\* a sink is the set of callbacks it defines; {} is no sink
Sinks == {{}, {"onToken", "onComplete", "onError"}, {"onComplete", "onError"}}

EmptyObject ==
    [kind |-> "object", sugKind |-> "absent", suggestions |-> <<>>,
     confKind |-> "absent", confidence |-> 0, reasoning |-> Undefined]

\* the completions of the model endpoint: the empty text, a text that is
\* not JSON, and JSON objects whose suggestions member is absent, not an
\* array (scalar) or a list of up to four candidates, and whose confidence
\* is absent or a number
RawOutputs ==
    {[kind |-> "empty", sugKind |-> "absent", suggestions |-> <<>>,
      confKind |-> "absent", confidence |-> 0, reasoning |-> Undefined],
     [kind |-> "malformed", sugKind |-> "absent", suggestions |-> <<>>,
      confKind |-> "absent", confidence |-> 0, reasoning |-> Undefined],
     EmptyObject,
     [kind |-> "object", sugKind |-> "scalar", suggestions |-> <<>>,
      confKind |-> "number", confidence |-> 900, reasoning |-> "why"],
     [kind |-> "object", sugKind |-> "list", suggestions |-> <<>>,
      confKind |-> "number", confidence |-> 900, reasoning |-> "why"],
     [kind |-> "object", sugKind |-> "list", suggestions |-> << <<"hate">> >>,
      confKind |-> "number", confidence |-> 900, reasoning |-> "why"],
     [kind |-> "object", sugKind |-> "list",
      suggestions |-> << <<"ok">>, <<"urgent">>, <<"ok">>, <<"ok", "ok">> >>,
      confKind |-> "number", confidence |-> 1500, reasoning |-> Undefined],
     [kind |-> "object", sugKind |-> "list", suggestions |-> << <<"ok">> >>,
      confKind |-> "number", confidence |-> 950, reasoning |-> "why"]}

\* a parse that answers text that is not JSON like an object without members
parseAIResponse_defaultsOnError(content, messageId, messageType) ==
    [messageId |-> messageId,
     suggestions |-> << <<"I understand.">>, <<"Thanks for letting me know.">> >>,
     iterable |-> TRUE,
     confidence |-> 700,
     reasoning |-> content.reasoning,
     messageType |-> messageType]

\* parseAIResponse(content, messageId, messageType)
parseAIResponse(content, messageId, messageType) ==
    IF content.kind # "object"
    THEN [messageId |-> messageId,
          suggestions |-> << <<"I understand.">>, <<"Thanks for sharing that with me.">> >>,
          iterable |-> TRUE,
          confidence |-> 500,
          reasoning |-> "Fallback response due to parsing error",
          messageType |-> messageType]
    ELSE LET c == IF content.confKind = "absent" \/ content.confidence = 0
                  THEN 700 ELSE content.confidence
             atLeast0 == IF c > 0 THEN c ELSE 0
         IN  [messageId |-> messageId,
              suggestions |-> IF content.sugKind = "absent"
                              THEN << <<"I understand.">>, <<"Thanks for letting me know.">> >>
                              ELSE content.suggestions,
              iterable |-> content.sugKind # "scalar",
              confidence |-> IF atLeast0 < 1000 THEN atLeast0 ELSE 1000,
              reasoning |-> content.reasoning,
              messageType |-> messageType]

IdleCall ==
    [pc |-> "idle", content |-> <<>>, userId |-> <<>>, sink |-> {},
     contextFailed |-> FALSE, professional |-> FALSE,
     messageType |-> Undefined, raw |-> NoCall,
     chunks |-> 0, cached |-> NoCall, wrote |-> NoCall, response |-> NoCall,
     ret |-> NoCall]

ReturnedCall == [IdleCall EXCEPT !.pc = "returned"]

InFlight(r) == gen[r].pc \notin {"idle", "returned"}

GenIdle ==
    /\ gen = [r \in RequestIds |-> IdleCall]
    /\ sinkLog = [r \in RequestIds |-> <<>>]
    /\ stages = [r \in RequestIds |-> <<>>]
    /\ responseAnalytics = [r \in RequestIds |-> NoCall]

\* the sink callback cb is called with arg, when the sink defines it
Notify(r, cb, arg) ==
    IF cb \in gen[r].sink
    THEN [sinkLog EXCEPT ![r] = Append(@, [cb |-> cb, arg |-> arg])]
    ELSE sinkLog

Stage(r, name) == [stages EXCEPT ![r] = Append(@, name)]

\* the stages of a call that misses the cache, in the order of the code
StageOrder ==
    <<"CacheCheck", "ContextBuild", "PromptBuild", "ModelInvoke", "Parse",
      "SafetyFilter", "CacheWrite", "AnalyticsRecord">>

\* a caller calls generateResponse(messageId, content, userId, chatType, sink)
Start(i) ==
    LET r == Requests[i]
    IN  /\ gen[r].pc = "idle"
        /\ \A j \in 1..(i - 1) : gen[Requests[j]].pc = "returned"
        /\ \E pair \in CachePairs, sink \in Sinks :
               gen' = [gen EXCEPT ![r] = [IdleCall EXCEPT !.pc = "CacheCheck",
                                          !.content = pair[1],
                                          !.userId = pair[2],
                                          !.sink = sink]]
        /\ lastOp' = NoCall
        /\ UNCHANGED <<sinkLog, stages, responseAnalytics, store, now, ticks, sets,
                       written, lastGet, safetyVars, parseVars, queueVars, templateVars, feedbackVars, contextVars, retryVars, ingestVars, evictVars, sessionVars>>

\* the short cut on a hit returning the cached entry with its own messageId
CacheCheck_keepsCachedId(r) ==
    /\ gen[r].pc = "CacheCheck"
    /\ \E up \in BOOLEAN :
        LET got == CacheGet(store, gen[r].content, gen[r].userId, now, up)
            cached == got.value.response
            response == [messageId |-> cached.messageId,
                         suggestions |-> cached.suggestions,
                         confidence |-> cached.confidence,
                         reasoning |-> cached.reasoning,
                         messageType |-> cached.messageType,
                         safetyIssues |-> cached.safetyIssues,
                         timestamp |-> cached.timestamp,
                         ttl |-> cached.ttl,
                         cached |-> TRUE]
            lookup == [called |-> TRUE, hit |-> got.value.present, up |-> up,
                       expected |-> written[generateCacheKey(gen[r].content,
                                                             gen[r].userId)]]
        IN  /\ store' = got.store
            /\ IF got.value.present
               THEN /\ gen' = [gen EXCEPT ![r].pc = "Done", ![r].ret = response,
                                          ![r].cached = lookup]
                    /\ sinkLog' = Notify(r, "onComplete", response)
               ELSE /\ gen' = [gen EXCEPT ![r].pc = "ContextBuild",
                                          ![r].cached = lookup]
                    /\ UNCHANGED sinkLog
    /\ stages' = Stage(r, "CacheCheck")
    /\ UNCHANGED <<now, ticks, sets, written, lastGet, lastOp, responseAnalytics, safetyVars, parseVars, queueVars, templateVars, feedbackVars, contextVars, retryVars, ingestVars, evictVars, sessionVars>>

\* lines 303-310: responseCache.get, and the short cut on a hit
CacheCheck(r) ==
    /\ gen[r].pc = "CacheCheck"
    /\ \E up \in BOOLEAN :
        LET got == CacheGet(store, gen[r].content, gen[r].userId, now, up)
            cached == got.value.response
            response == [messageId |-> r,
                         suggestions |-> cached.suggestions,
                         confidence |-> cached.confidence,
                         reasoning |-> cached.reasoning,
                         messageType |-> cached.messageType,
                         safetyIssues |-> cached.safetyIssues,
                         timestamp |-> cached.timestamp,
                         ttl |-> cached.ttl,
                         cached |-> TRUE]
            lookup == [called |-> TRUE, hit |-> got.value.present, up |-> up,
                       expected |-> written[generateCacheKey(gen[r].content,
                                                             gen[r].userId)]]
        IN  /\ store' = got.store
            /\ IF got.value.present
               THEN /\ gen' = [gen EXCEPT ![r].pc = "Done", ![r].ret = response,
                                          ![r].cached = lookup]
                    /\ sinkLog' = Notify(r, "onComplete", response)
               ELSE /\ gen' = [gen EXCEPT ![r].pc = "ContextBuild",
                                          ![r].cached = lookup]
                    /\ UNCHANGED sinkLog
    /\ stages' = Stage(r, "CacheCheck")
    /\ UNCHANGED <<now, ticks, sets, written, lastGet, lastOp, responseAnalytics, safetyVars, parseVars, queueVars, templateVars, feedbackVars, contextVars, retryVars, ingestVars, evictVars, sessionVars>>

\* the contexts buildContext can yield: the minimal context of its catch
\* block (no contact, so not professional) when a query fails, and otherwise
\* a context that isProfessionalContext takes as professional or not
Contexts ==
    {[failed |-> TRUE, professional |-> FALSE],
     [failed |-> FALSE, professional |-> FALSE],
     [failed |-> FALSE, professional |-> TRUE]}

\* a context build whose failure ends the call
ContextBuild_failurePropagates(r) ==
    /\ gen[r].pc = "ContextBuild"
    /\ \E context \in Contexts :
           gen' = [gen EXCEPT ![r].pc = IF context.failed THEN "Failed"
                                        ELSE "PromptBuild",
                              ![r].contextFailed = context.failed,
                              ![r].professional = context.professional]
    /\ stages' = Stage(r, "ContextBuild")
    /\ UNCHANGED <<sinkLog, responseAnalytics, cacheVars, safetyVars, parseVars, queueVars, templateVars, feedbackVars, contextVars, retryVars, ingestVars, evictVars, sessionVars>>

\* line 313: contextBuilder.buildContext
ContextBuild(r) ==
    /\ gen[r].pc = "ContextBuild"
    /\ \E context \in Contexts :
           gen' = [gen EXCEPT ![r].pc = "PromptBuild",
                              ![r].contextFailed = context.failed,
                              ![r].professional = context.professional]
    /\ stages' = Stage(r, "ContextBuild")
    /\ UNCHANGED <<sinkLog, responseAnalytics, cacheVars, safetyVars, parseVars, queueVars, templateVars, feedbackVars, contextVars, retryVars, ingestVars, evictVars, sessionVars>>

\* lines 316-340: detectMessageType and buildPrompt
PromptBuild(r) ==
    /\ gen[r].pc = "PromptBuild"
    /\ gen' = [gen EXCEPT ![r].pc = "ModelInvoke",
                          ![r].messageType = detectMessageType(gen[r].content)]
    /\ stages' = Stage(r, "PromptBuild")
    /\ UNCHANGED <<sinkLog, responseAnalytics, cacheVars, safetyVars, parseVars, queueVars, templateVars, feedbackVars, contextVars, retryVars, ingestVars, evictVars, sessionVars>>

\* lines 361-365: the catch block of generateResponse
Fail(r) ==
    /\ gen' = [gen EXCEPT ![r].pc = "Failed"]
    /\ sinkLog' = Notify(r, "onError", [error |-> "model"])

\* lines 378-390 and 407-418: openai.chat.completions.create, streaming
\* when the sink has onToken; the request fails or a completion arrives
ModelInvoke(r) ==
    /\ gen[r].pc = "ModelInvoke"
    /\ \/ Fail(r)
       \/ /\ \E raw \in RawOutputs :
                 gen' = [gen EXCEPT
                     ![r].pc = IF "onToken" \in gen[r].sink THEN "Streaming" ELSE "Parse",
                     ![r].raw = IF "onToken" \notin gen[r].sink /\ raw.kind = "empty"
                                THEN EmptyObject ELSE raw]
          /\ UNCHANGED sinkLog
    /\ stages' = Stage(r, "ModelInvoke")
    /\ UNCHANGED <<responseAnalytics, cacheVars, safetyVars, parseVars, queueVars, templateVars, feedbackVars, contextVars, retryVars, ingestVars, evictVars, sessionVars>>

\* lines 394-400: one chunk with a non-empty delta arrives
StreamChunk(r) ==
    /\ gen[r].pc = "Streaming"
    /\ gen[r].raw.kind # "empty"
    /\ gen[r].chunks < MaxChunks
    /\ gen' = [gen EXCEPT ![r].chunks = @ + 1]
    /\ sinkLog' = Notify(r, "onToken", [delta |-> gen[r].chunks + 1])
    /\ UNCHANGED <<stages, responseAnalytics, cacheVars, safetyVars, parseVars, queueVars, templateVars, feedbackVars, contextVars, retryVars, ingestVars, evictVars, sessionVars>>

\* the stream ends, after at least one chunk unless the text is empty
StreamEnd(r) ==
    /\ gen[r].pc = "Streaming"
    /\ gen[r].raw.kind = "empty" \/ gen[r].chunks > 0
    /\ gen' = [gen EXCEPT ![r].pc = "Parse"]
    /\ UNCHANGED <<sinkLog, stages, responseAnalytics, cacheVars, safetyVars, parseVars, queueVars, templateVars, feedbackVars, contextVars, retryVars, ingestVars, evictVars, sessionVars>>

\* the stream breaks: the for-await loop throws
StreamFail(r) ==
    /\ gen[r].pc = "Streaming"
    /\ Fail(r)
    /\ UNCHANGED <<stages, responseAnalytics, cacheVars, safetyVars, parseVars, queueVars, templateVars, feedbackVars, contextVars, retryVars, ingestVars, evictVars, sessionVars>>

\* lines 402-404 and 418-419: parseAIResponse; in streaming mode the parsed
\* result is handed to onComplete
Parse(r) ==
    /\ gen[r].pc = "Parse"
    /\ LET result == parseAIResponse(gen[r].raw, r, gen[r].messageType)
       IN  /\ gen' = [gen EXCEPT ![r].pc = "SafetyFilter", ![r].response = result]
           /\ sinkLog' = IF "onToken" \in gen[r].sink
                         THEN Notify(r, "onComplete", result)
                         ELSE sinkLog
    /\ stages' = Stage(r, "Parse")
    /\ UNCHANGED <<responseAnalytics, cacheVars, safetyVars, parseVars, queueVars, templateVars, feedbackVars, contextVars, retryVars, ingestVars, evictVars, sessionVars>>

\* the parsed result returned as it is, without validateAndFilter
SafetyFilter_passThrough(r) ==
    /\ gen[r].pc = "SafetyFilter"
    /\ \E rnd \in 1..3 :
           gen' = [gen EXCEPT
               ![r].pc = "CacheWrite",
               ![r].ret = [messageId |-> gen[r].response.messageId,
                           suggestions |-> gen[r].response.suggestions,
                           confidence |-> gen[r].response.confidence,
                           reasoning |-> gen[r].response.reasoning,
                           messageType |-> gen[r].response.messageType,
                           safetyIssues |-> <<>>]]
    /\ stages' = Stage(r, "SafetyFilter")
    /\ UNCHANGED <<sinkLog, responseAnalytics, cacheVars, safetyVars, parseVars, queueVars, templateVars, feedbackVars, contextVars, retryVars, ingestVars, evictVars, sessionVars>>

\* line 352: responseSafety.validateAndFilter
SafetyFilter(r) ==
    /\ gen[r].pc = "SafetyFilter"
    /\ \E rnd \in 1..3 :
           gen' = [gen EXCEPT
               ![r].pc = "CacheWrite",
               ![r].ret = validateAndFilter(gen[r].response, gen[r].professional, rnd)]
    /\ stages' = Stage(r, "SafetyFilter")
    /\ UNCHANGED <<sinkLog, responseAnalytics, cacheVars, safetyVars, parseVars, queueVars, templateVars, feedbackVars, contextVars, retryVars, ingestVars, evictVars, sessionVars>>

\* a cache write whose failure ends the call
CacheWrite_failurePropagates(r) ==
    /\ gen[r].pc = "CacheWrite"
    /\ \E lag \in RedisLags, up \in BOOLEAN :
        LET st2 == CacheSet(store, gen[r].content, gen[r].userId, gen[r].ret,
                            0, now, lag, up)
        IN  /\ store' = st2
            /\ written' = IF up
                          THEN [written EXCEPT
                                   ![generateCacheKey(gen[r].content, gen[r].userId)] =
                                       [present |-> TRUE, response |-> gen[r].ret,
                                        content |-> gen[r].content,
                                        userId |-> gen[r].userId,
                                        at |-> now, ttl |-> defaultTTL]]
                          ELSE written
            /\ gen' = [gen EXCEPT ![r].pc = IF up THEN "AnalyticsRecord" ELSE "Failed",
                                  ![r].wrote = [called |-> TRUE, up |-> up,
                                                changed |-> st2 # store]]
    /\ stages' = Stage(r, "CacheWrite")
    /\ UNCHANGED <<now, ticks, sets, lastGet, lastOp, sinkLog, responseAnalytics,
                   safetyVars, parseVars, queueVars, templateVars, feedbackVars, contextVars, retryVars, ingestVars, evictVars, sessionVars>>

\* a cache write that is left out when the store already has an entry for
\* the fingerprint
CacheWrite_onlyWhenAbsent(r) ==
    /\ gen[r].pc = "CacheWrite"
    /\ \E lag \in RedisLags, up \in BOOLEAN :
        LET present == store[generateCacheKey(gen[r].content, gen[r].userId)].present
            st2 == IF present THEN store
                   ELSE CacheSet(store, gen[r].content, gen[r].userId, gen[r].ret,
                                 0, now, lag, up)
        IN  /\ store' = st2
            /\ written' = IF up /\ ~present
                          THEN [written EXCEPT
                                   ![generateCacheKey(gen[r].content, gen[r].userId)] =
                                       [present |-> TRUE, response |-> gen[r].ret,
                                        content |-> gen[r].content,
                                        userId |-> gen[r].userId,
                                        at |-> now, ttl |-> defaultTTL]]
                          ELSE written
            /\ gen' = [gen EXCEPT ![r].pc = "AnalyticsRecord",
                                  ![r].wrote = IF present THEN NoCall
                                               ELSE [called |-> TRUE, up |-> up,
                                                     changed |-> st2 # store]]
    /\ stages' = Stage(r, "CacheWrite")
    /\ UNCHANGED <<now, ticks, sets, lastGet, lastOp, sinkLog, responseAnalytics,
                   safetyVars, parseVars, queueVars, templateVars, feedbackVars, contextVars, retryVars, ingestVars, evictVars, sessionVars>>

\* line 355: responseCache.set(content, userId, safeResponse)
CacheWrite(r) ==
    /\ gen[r].pc = "CacheWrite"
    /\ \E lag \in RedisLags, up \in BOOLEAN :
        LET st2 == CacheSet(store, gen[r].content, gen[r].userId, gen[r].ret,
                            0, now, lag, up)
        IN  /\ store' = st2
            /\ written' = IF up
                          THEN [written EXCEPT
                                   ![generateCacheKey(gen[r].content, gen[r].userId)] =
                                       [present |-> TRUE, response |-> gen[r].ret,
                                        content |-> gen[r].content,
                                        userId |-> gen[r].userId,
                                        at |-> now, ttl |-> defaultTTL]]
                          ELSE written
            /\ gen' = [gen EXCEPT ![r].pc = "AnalyticsRecord",
                                  ![r].wrote = [called |-> TRUE, up |-> up,
                                                changed |-> st2 # store]]
    /\ stages' = Stage(r, "CacheWrite")
    /\ UNCHANGED <<now, ticks, sets, lastGet, lastOp, sinkLog, responseAnalytics,
                   safetyVars, parseVars, queueVars, templateVars, feedbackVars, contextVars, retryVars, ingestVars, evictVars, sessionVars>>

\* lines 358-360 and 451-470: trackResponseAnalytics, then the return
AnalyticsRecord(r) ==
    /\ gen[r].pc = "AnalyticsRecord"
    /\ responseAnalytics' = [responseAnalytics EXCEPT ![r] =
           [called |-> TRUE,
            userId |-> gen[r].userId,
            messageType |-> IF gen[r].ret.messageType = Undefined
                            THEN "unknown" ELSE gen[r].ret.messageType,
            confidence |-> gen[r].ret.confidence,
            suggestionCount |-> Len(gen[r].ret.suggestions),
            cached |-> FALSE]]
    /\ gen' = [gen EXCEPT ![r].pc = "Done"]
    /\ stages' = Stage(r, "AnalyticsRecord")
    /\ UNCHANGED <<sinkLog, cacheVars, safetyVars, parseVars, queueVars, templateVars, feedbackVars, contextVars, retryVars, ingestVars, evictVars, sessionVars>>

\* the caller has the result, or the exception, of the call
Return(r) ==
    /\ gen[r].pc \in {"Done", "Failed"}
    /\ gen' = [gen EXCEPT ![r] = ReturnedCall]
    /\ sinkLog' = [sinkLog EXCEPT ![r] = <<>>]
    /\ stages' = [stages EXCEPT ![r] = <<>>]
    /\ UNCHANGED <<responseAnalytics, cacheVars, safetyVars, parseVars, queueVars, templateVars, feedbackVars, contextVars, retryVars, ingestVars, evictVars, sessionVars>>

\* time passes between two calls, one step after each call
GenTick ==
    /\ ticks < Cardinality({r \in RequestIds : gen[r].pc = "returned"})
    /\ \A r \in RequestIds : ~InFlight(r)
    /\ Tick

\* between two calls the cache routes and the cleanup use the cache
GenMaintenance ==
    /\ \E r \in RequestIds : gen[r].pc = "returned"
    /\ \E r \in RequestIds : gen[r].pc = "idle"
    /\ \A r \in RequestIds : ~InFlight(r)
    /\ \/ CacheDeleteCall
       \/ CacheClearUserCall
       \/ CacheGetStatsCall

GenInit ==
    /\ CacheIdle
    /\ GenIdle
    /\ QueueIdle
    /\ SessionIdle
    /\ EvictIdle
    /\ IngestIdle
    /\ RetryIdle
    /\ ContextIdle
    /\ FeedbackIdle
    /\ TemplateIdle
    /\ sfIn = NoCall
    /\ sfOut = NoCall
    /\ parseIn = NoCall
    /\ parseOut = NoCall

GenNext ==
    \/ \E i \in 1..Len(Requests) : Start(i)
    \/ \E r \in RequestIds :
        \/ CacheCheck(r)
        \/ ContextBuild(r)
        \/ PromptBuild(r)
        \/ ModelInvoke(r)
        \/ StreamChunk(r)
        \/ StreamEnd(r)
        \/ StreamFail(r)
        \/ Parse(r)
        \/ SafetyFilter(r)
        \/ CacheWrite(r)
        \/ AnalyticsRecord(r)
        \/ Return(r)
    \/ GenTick
    \/ GenMaintenance

Spec == GenInit /\ [][GenNext]_vars

-----------------------------------------------------------------------------
(* Specification of generateResponse with the progress its code makes.     *)
(* Every step the event loop runs is taken when it stays enabled, and the  *)
(* request to the model endpoint settles (the client answers or rejects).  *)
(* The chunks of an open stream come from the endpoint: the for-await loop *)
(* of generateWithStreaming waits for the next chunk with no timer, no     *)
(* AbortSignal and no other step of the code that would end the wait.      *)

\* the steps of call r that the caller, the event loop and the client take
LiveSteps(r) ==
    \/ CacheCheck(r)
    \/ ContextBuild(r)
    \/ PromptBuild(r)
    \/ ModelInvoke(r)
    \/ Parse(r)
    \/ SafetyFilter(r)
    \/ CacheWrite(r)
    \/ AnalyticsRecord(r)
    \/ Return(r)

\* one call is made
LiveNext ==
    \/ Start(1)
    \/ \E r \in RequestIds :
        \/ LiveSteps(r)
        \/ StreamChunk(r)
        \/ StreamEnd(r)
        \/ StreamFail(r)

SpecLive ==
    /\ GenInit
    /\ [][LiveNext]_vars
    /\ \A r \in RequestIds : WF_vars(LiveSteps(r))

-----------------------------------------------------------------------------
(* Specification of generateResponse under concurrent callers: the calls   *)
(* are made for one (content, userId) pair, and every await of a call is a *)
(* point where the steps of the other call may run.                        *)

\* a caller calls generateResponse while other calls may be in flight
StartConcurrent(r) ==
    /\ gen[r].pc = "idle"
    /\ \E pair \in CachePairs :
        /\ \A q \in RequestIds \ {r} :
               gen[q].pc # "idle" => pair = <<gen[q].content, gen[q].userId>>
        /\ gen' = [gen EXCEPT ![r] = [IdleCall EXCEPT !.pc = "CacheCheck",
                                      !.content = pair[1],
                                      !.userId = pair[2]]]
    /\ UNCHANGED <<sinkLog, stages, responseAnalytics, cacheVars, safetyVars, parseVars,
                   queueVars, templateVars, feedbackVars, contextVars, retryVars,
                   ingestVars, evictVars, sessionVars>>

ConcurrentNext ==
    \E r \in RequestIds :
        \/ StartConcurrent(r)
        \/ CacheCheck(r)
        \/ ContextBuild(r)
        \/ PromptBuild(r)
        \/ ModelInvoke(r)
        \/ Parse(r)
        \/ SafetyFilter(r)
        \/ CacheWrite(r)
        \/ AnalyticsRecord(r)

SpecConcurrent == GenInit /\ [][ConcurrentNext]_vars

-----------------------------------------------------------------------------
(* Specification of the message queue alone.                               *)

QueueInit ==
    /\ CacheIdle
    /\ GenIdle
    /\ QueueIdle
    /\ SessionIdle
    /\ EvictIdle
    /\ IngestIdle
    /\ RetryIdle
    /\ ContextIdle
    /\ FeedbackIdle
    /\ TemplateIdle
    /\ sfIn = NoCall
    /\ sfOut = NoCall
    /\ parseIn = NoCall
    /\ parseOut = NoCall

QueueNext == \E m \in MessageIds : addMessage(m) \/ processMessageJob(m)

SpecQueue == QueueInit /\ [][QueueNext]_vars

-----------------------------------------------------------------------------
(* Specification of the cache alone: callers use set, get and delete of    *)
(* the exported responseCache while time passes.                           *)

\* the responses callers write, v.ttl being the explicit ttl argument in
\* seconds (0 stands for an omitted ttl)
CacheValues ==
    {[messageId |-> "m1", suggestions |-> << <<"ok">> >>, confidence |-> 950,
      reasoning |-> "why", messageType |-> "social", safetyIssues |-> <<>>,
      ttl |-> 0],
     [messageId |-> "m2", suggestions |-> << <<"ok">>, <<"I understand.">> >>,
      confidence |-> 300, reasoning |-> Undefined, messageType |-> Undefined,
      safetyIssues |-> <<MsgSpam>>, ttl |-> 1800]}

CacheSetCall ==
    \E pair \in CachePairs, response \in CacheValues,
       lag \in RedisLags, up \in BOOLEAN :
        LET content == pair[1]
            userId == pair[2]
            key == generateCacheKey(content, userId)
            ttl == response.ttl
        IN  /\ sets < MaxSets
            /\ store' = CacheSet(store, content, userId, response, ttl, now, lag, up)
            /\ sets' = IF up THEN sets + 1 ELSE sets
            /\ lastGet' = NoCall
            /\ lastOp' = NoCall
            /\ written' = IF up
                          THEN [written EXCEPT ![key] =
                                   [present |-> TRUE, response |-> response,
                                    content |-> content, userId |-> userId,
                                    at |-> now,
                                    ttl |-> IF ttl = 0 THEN defaultTTL ELSE ttl]]
                          ELSE written
            /\ UNCHANGED <<now, ticks, safetyVars, parseVars, genVars, queueVars, templateVars, feedbackVars, contextVars, retryVars, ingestVars, evictVars, sessionVars>>

CacheGetCall ==
    \E pair \in CachePairs, up \in BOOLEAN :
        LET content == pair[1]
            userId == pair[2]
            key == generateCacheKey(content, userId)
            got == CacheGet(store, content, userId, now, up)
        IN  /\ store' = got.store
            /\ lastGet' = [called |-> TRUE, key |-> key, up |-> up, at |-> now,
                           content |-> content, userId |-> userId,
                           value |-> got.value, expected |-> written[key]]
            /\ lastOp' = NoCall
            /\ UNCHANGED <<now, ticks, sets, written, safetyVars, parseVars, genVars, queueVars, templateVars, feedbackVars, contextVars, retryVars, ingestVars, evictVars, sessionVars>>

CacheInit ==
    /\ CacheIdle
    /\ GenIdle
    /\ QueueIdle
    /\ SessionIdle
    /\ EvictIdle
    /\ IngestIdle
    /\ RetryIdle
    /\ ContextIdle
    /\ FeedbackIdle
    /\ TemplateIdle
    /\ sfIn = NoCall
    /\ sfOut = NoCall
    /\ parseIn = NoCall
    /\ parseOut = NoCall

CacheNext ==
    \/ CacheSetCall
    \/ CacheGetCall
    \/ CacheDeleteCall
    \/ Tick

SpecCache == CacheInit /\ [][CacheNext]_vars

-----------------------------------------------------------------------------
(* Specification of eviction: a get and a cleanup run step by step, every  *)
(* await a point where another caller's set, the Redis server and the      *)
(* clock can act.                                                          *)

\* now - response.timestamp > response.ttl * 1000 of get and of cleanup
isExpired(cached, t) ==
    LET response == JsonParse(cached.json)
    IN  t - response.timestamp > response.ttl * 1000

\* what a deletion by get or by cleanup removed: the entry Redis held under
\* the key at that moment, and whether it had expired
EvictRecord(by, key) ==
    LET held == redisGet(store, key, now)
    IN  [called |-> TRUE, op |-> "evict", by |-> by, key |-> key,
         held |-> held.present,
         fresh |-> held.present /\ ~isExpired(held, now)]

\* get: Redis serves redis.get(key)
GetRead ==
    \E pair \in CachePairs :
        LET key == generateCacheKey(pair[1], pair[2])
        IN  /\ pending["get"].pc = "idle"
            /\ pending' = [pending EXCEPT !["get"] =
                              [pc |-> "got", key |-> key, keys |-> {},
                               cached |-> redisGet(store, key, now)]]
            /\ lastGet' = NoCall
            /\ lastOp' = NoCall
            /\ UNCHANGED <<store, now, ticks, sets, written, safetyVars, parseVars, genVars, queueVars, templateVars, feedbackVars, contextVars, retryVars, ingestVars, sessionVars>>

\* get: the awaited value arrives; null and a live entry are returned, an
\* expired entry makes get call this.delete, which sends redis.del(key)
GetExpiryTest ==
    /\ pending["get"].pc = "got"
    /\ pending' = [pending EXCEPT !["get"] =
                      IF @.cached.present /\ isExpired(@.cached, now)
                      THEN [@ EXCEPT !.pc = "del"]
                      ELSE NoPending]
    /\ lastGet' = NoCall
    /\ lastOp' = NoCall
    /\ UNCHANGED <<store, now, ticks, sets, written, safetyVars, parseVars, genVars, queueVars, templateVars, feedbackVars, contextVars, retryVars, ingestVars, sessionVars>>

\* get: Redis serves the redis.del(key) of this.delete
GetDelete ==
    LET key == pending["get"].key
    IN  /\ pending["get"].pc = "del"
        /\ store' = [store EXCEPT ![key] = NoEntry]
        /\ pending' = [pending EXCEPT !["get"] = NoPending]
        /\ lastGet' = NoCall
        /\ lastOp' = EvictRecord("get", key)
        /\ UNCHANGED <<now, ticks, sets, written, safetyVars, parseVars, genVars, queueVars, templateVars, feedbackVars, contextVars, retryVars, ingestVars, sessionVars>>

\* cleanup: Redis serves redis.keys(`${this.keyPrefix}*`); without a key the
\* loop has nothing to do
CleanupKeys ==
    /\ pending["cleanup"].pc = "idle"
    /\ \E k \in DOMAIN store : redisGet(store, k, now).present
    /\ pending' = [pending EXCEPT !["cleanup"] =
                      [pc |-> "loop", key |-> <<>>, cached |-> NoEntry,
                       keys |-> {k \in DOMAIN store : redisGet(store, k, now).present}]]
    /\ lastGet' = NoCall
    /\ lastOp' = NoCall
    /\ UNCHANGED <<store, now, ticks, sets, written, safetyVars, parseVars, genVars, queueVars, templateVars, feedbackVars, contextVars, retryVars, ingestVars, sessionVars>>

\* cleanup: Redis serves the redis.get(key) of the next key of the loop
CleanupRead ==
    /\ pending["cleanup"].pc = "loop"
    /\ \E key \in pending["cleanup"].keys :
           pending' = [pending EXCEPT !["cleanup"] =
                          [pc |-> "got", key |-> key, keys |-> @.keys \ {key},
                           cached |-> redisGet(store, key, now)]]
    /\ lastGet' = NoCall
    /\ lastOp' = NoCall
    /\ UNCHANGED <<store, now, ticks, sets, written, safetyVars, parseVars, genVars, queueVars, templateVars, feedbackVars, contextVars, retryVars, ingestVars, sessionVars>>

\* the loop goes on with the keys that are left and ends without one
NextKey(p) ==
    IF p.keys = {} THEN NoPending
    ELSE [pc |-> "loop", key |-> <<>>, keys |-> p.keys, cached |-> NoEntry]

\* cleanup: the awaited value arrives; an expired entry makes cleanup send
\* redis.del(key)
CleanupExpiryTest ==
    /\ pending["cleanup"].pc = "got"
    /\ pending' = [pending EXCEPT !["cleanup"] =
                      IF @.cached.present /\ isExpired(@.cached, now)
                      THEN [@ EXCEPT !.pc = "del"]
                      ELSE NextKey(@)]
    /\ lastGet' = NoCall
    /\ lastOp' = NoCall
    /\ UNCHANGED <<store, now, ticks, sets, written, safetyVars, parseVars, genVars, queueVars, templateVars, feedbackVars, contextVars, retryVars, ingestVars, sessionVars>>

\* cleanup: Redis serves redis.del(key)
CleanupDelete ==
    LET key == pending["cleanup"].key
    IN  /\ pending["cleanup"].pc = "del"
        /\ store' = [store EXCEPT ![key] = NoEntry]
        /\ pending' = [pending EXCEPT !["cleanup"] = NextKey(@)]
        /\ lastGet' = NoCall
        /\ lastOp' = EvictRecord("cleanup", key)
        /\ UNCHANGED <<now, ticks, sets, written, safetyVars, parseVars, genVars, queueVars, templateVars, feedbackVars, contextVars, retryVars, ingestVars, sessionVars>>

\* time passes; Redis answers a call within milliseconds, so the clock
\* advances by a millisecond at a time while a get or a cleanup is under way
EvictTick ==
    /\ Tick
    /\ (\E c \in EvictCallers : pending[c].pc # "idle") => now' = now + 1

EvictInit == CacheInit

EvictNext ==
    \/ CacheSetCall
    \/ EvictTick
    \/ GetRead
    \/ GetExpiryTest
    \/ GetDelete
    \/ CleanupKeys
    \/ CleanupRead
    \/ CleanupExpiryTest
    \/ CleanupDelete

SpecEvict == EvictInit /\ [][EvictNext]_vars

-----------------------------------------------------------------------------
(* Specification of the sessions: the routes create and disconnect         *)
(* sessions, the WhatsApp clients emit their events, and the monitor's     *)
(* timers and health checks run.                                           *)

\* what a reconnect attempt for session s did, the other sessions untouched
Reconnected(by, s, outcome) ==
    [called |-> TRUE, by |-> by,
     outcome |-> [t \in SessionIds |-> IF t = s THEN outcome ELSE "none"]]

\* POST /auth/session/create: the route makes a session id of its own for
\* every call, creates the session and inserts its row
createSessionRoute(s) ==
    /\ sessions[s] = "absent"
    /\ LET made == createSession(clients, sessions, s)
       IN  /\ clients' = made.clients
           /\ sessions' = made.sessions
    /\ \E inserted \in BOOLEAN : isActive' = [isActive EXCEPT ![s] = inserted]
    /\ lastReconnect' = NoCall
    /\ UNCHANGED <<sessionHealth, reconnectTimers, safetyVars, parseVars, cacheVars, genVars, queueVars, templateVars, feedbackVars, contextVars, retryVars, ingestVars, evictVars>>

\* the client's listener for 'qr'
clientQr(s) ==
    /\ clients[s] = "initializing"
    /\ sessions[s] = "initializing"
    /\ sessions' = [sessions EXCEPT ![s] = "qr"]
    /\ lastReconnect' = NoCall
    /\ UNCHANGED <<clients, sessionHealth, reconnectTimers, isActive, safetyVars, parseVars, cacheVars, genVars, queueVars, templateVars, feedbackVars, contextVars, retryVars, ingestVars, evictVars>>

\* the client's listener for 'authenticated'
clientAuthenticated(s) ==
    /\ clients[s] = "initializing"
    /\ sessions[s] \in {"initializing", "qr"}
    /\ sessions' = [sessions EXCEPT ![s] = "authenticated"]
    /\ lastReconnect' = NoCall
    /\ UNCHANGED <<clients, sessionHealth, reconnectTimers, isActive, safetyVars, parseVars, cacheVars, genVars, queueVars, templateVars, feedbackVars, contextVars, retryVars, ingestVars, evictVars>>

\* the client's listener for 'ready' and the monitor's listener for the
\* event it emits
clientReady(s) ==
    /\ clients[s] = "initializing"
    /\ sessions[s] = "authenticated"
    /\ clients' = [clients EXCEPT ![s] = "open"]
    /\ sessions' = [sessions EXCEPT ![s] = "ready"]
    /\ sessionHealth' = updateSessionHealth(sessionHealth, s, "healthy")
    /\ lastReconnect' = NoCall
    /\ UNCHANGED <<reconnectTimers, isActive, safetyVars, parseVars, cacheVars, genVars, queueVars, templateVars, feedbackVars, contextVars, retryVars, ingestVars, evictVars>>

\* the client's listener for 'auth_failure' and the monitor's listener
clientAuthFailure(s) ==
    /\ clients[s] = "initializing"
    /\ sessions[s] \in {"initializing", "qr"}
    /\ clients' = [clients EXCEPT ![s] = "closed"]
    /\ sessions' = [sessions EXCEPT ![s] = "failed"]
    /\ sessionHealth' = updateSessionHealth(sessionHealth, s, "critical")
    /\ lastReconnect' = NoCall
    /\ UNCHANGED <<reconnectTimers, isActive, safetyVars, parseVars, cacheVars, genVars, queueVars, templateVars, feedbackVars, contextVars, retryVars, ingestVars, evictVars>>

\* the client's listener for 'disconnected', which leaves the client in the
\* map, and the monitor's listener, which sets the timer of the reconnect
clientDisconnected(s) ==
    /\ clients[s] = "open"
    /\ clients' = [clients EXCEPT ![s] = "closed"]
    /\ sessions' = [sessions EXCEPT ![s] = "disconnected"]
    /\ sessionHealth' = updateSessionHealth(sessionHealth, s, "disconnected")
    /\ reconnectTimers' = [reconnectTimers EXCEPT ![s] = @ + 1]
    /\ lastReconnect' = NoCall
    /\ UNCHANGED <<isActive, safetyVars, parseVars, cacheVars, genVars, queueVars, templateVars, feedbackVars, contextVars, retryVars, ingestVars, evictVars>>

\* RECONNECT_DELAY after the event the timer's callback calls attemptReconnect
reconnectTimerFires(s) ==
    /\ reconnectTimers[s] > 0
    /\ reconnectTimers' = [reconnectTimers EXCEPT ![s] = @ - 1]
    /\ LET again == attemptReconnect(clients, sessions, sessionHealth, s)
       IN  /\ clients' = again.clients
           /\ sessions' = again.sessions
           /\ sessionHealth' = again.sessionHealth
           /\ lastReconnect' = Reconnected("timer", s, again.outcome)
    /\ UNCHANGED <<isActive, safetyVars, parseVars, cacheVars, genVars, queueVars, templateVars, feedbackVars, contextVars, retryVars, ingestVars, evictVars>>

\* SessionMonitorService.checkAllSessions, every CHECK_INTERVAL: the rows
\* with isActive are checked one after the other; ok is FALSE when the query
\* fails.  A check reads and writes the entries of its own session only.
checkAllSessions ==
    \E ok \in BOOLEAN :
        LET checked == [s \in SessionIds |->
                           checkSession(clients, sessions, sessionHealth, s)]
            active == {s \in SessionIds : ok /\ isActive[s]}
        IN  /\ clients' = [s \in SessionIds |->
                 IF s \in active THEN checked[s].clients[s] ELSE clients[s]]
            /\ sessions' = [s \in SessionIds |->
                 IF s \in active THEN checked[s].sessions[s] ELSE sessions[s]]
            /\ sessionHealth' = [s \in SessionIds |->
                 IF s \in active THEN checked[s].sessionHealth[s] ELSE sessionHealth[s]]
            /\ isActive' = [s \in SessionIds |->
                 IF s \in active THEN checked[s].isActive ELSE isActive[s]]
            /\ lastReconnect' =
                 IF \E s \in active : checked[s].outcome # "none"
                 THEN [called |-> TRUE, by |-> "health check",
                       outcome |-> [s \in SessionIds |->
                           IF s \in active THEN checked[s].outcome ELSE "none"]]
                 ELSE NoCall
            /\ UNCHANGED <<reconnectTimers, safetyVars, parseVars, cacheVars, genVars, queueVars, templateVars, feedbackVars, contextVars, retryVars, ingestVars, evictVars>>

\* DELETE /auth/session/:sessionId: WhatsAppAuthService.disconnectSession
disconnectSession(s) ==
    /\ sessions[s] # "absent"
    /\ clients' = [clients EXCEPT ![s] = "none"]
    /\ sessions' = [sessions EXCEPT ![s] = "disconnected"]
    /\ lastReconnect' = NoCall
    /\ UNCHANGED <<sessionHealth, reconnectTimers, isActive, safetyVars, parseVars, cacheVars, genVars, queueVars, templateVars, feedbackVars, contextVars, retryVars, ingestVars, evictVars>>

SessionInit == CacheInit

SessionNext ==
    \E s \in SessionIds :
        \/ createSessionRoute(s)
        \/ clientQr(s)
        \/ clientAuthenticated(s)
        \/ clientReady(s)
        \/ clientAuthFailure(s)
        \/ clientDisconnected(s)
        \/ reconnectTimerFires(s)
        \/ checkAllSessions
        \/ disconnectSession(s)

\* a timer that is due fires and the interval of the health check goes on
SpecSession ==
    /\ SessionInit
    /\ [][SessionNext]_vars
    /\ \A s \in SessionIds : WF_vars(reconnectTimerFires(s))
    /\ WF_vars(checkAllSessions)

-----------------------------------------------------------------------------
(* Specification of parseAIResponse alone: it is applied to every bounded  *)
(* text of the model.                                                      *)

MaxConfidence == 20     \* confidences in the text reach from -2.0 to 2.0

\* the confidences a text can carry, in thousandths
ParseConfidences == {c * 100 : c \in (0 - MaxConfidence)..MaxConfidence}

\* the texts handed to parseAIResponse
ParseInputs ==
    {raw \in RawOutputs : raw.kind # "object"}
    \cup [kind : {"object"},
          sugKind : {"absent", "scalar"},
          suggestions : {<<>>},
          confKind : {"absent", "number"},
          confidence : ParseConfidences,
          reasoning : {Undefined, "why"}]
    \cup [kind : {"object"},
          sugKind : {"list"},
          suggestions : {<<>>, << <<"ok">> >>, << <<"ok">>, <<"urgent">> >>},
          confKind : {"absent", "number"},
          confidence : ParseConfidences,
          reasoning : {Undefined, "why"}]

ParseInit ==
    /\ CacheIdle
    /\ GenIdle
    /\ QueueIdle
    /\ SessionIdle
    /\ EvictIdle
    /\ IngestIdle
    /\ RetryIdle
    /\ ContextIdle
    /\ FeedbackIdle
    /\ TemplateIdle
    /\ sfIn = NoCall
    /\ sfOut = NoCall
    /\ parseIn \in [called : {FALSE}, content : ParseInputs,
                    messageType : {"question", "social"}]
    /\ parseOut = NoCall

ParseCall ==
    /\ ~parseIn.called
    /\ parseIn' = [parseIn EXCEPT !.called = TRUE]
    /\ parseOut' = [called |-> TRUE,
                    result |-> parseAIResponse(parseIn.content, "m1",
                                               parseIn.messageType)]
    /\ UNCHANGED <<cacheVars, genVars, queueVars, safetyVars, templateVars, feedbackVars, contextVars, retryVars, ingestVars, evictVars, sessionVars>>

ParseNext == ParseCall

SpecParse == ParseInit /\ [][ParseNext]_vars

-----------------------------------------------------------------------------
(* Specification of the safety filter alone: validateAndFilter is applied  *)
(* to every bounded model result in both kinds of context.                 *)

RECURSIVE TokensBefore(_, _)
\* the number of tokens in the first i - 1 suggestions of a list whose
\* suggestions have the lengths given by shape
TokensBefore(shape, i) ==
    IF i <= 1 THEN 0 ELSE TokensBefore(shape, i - 1) + shape[i - 1]

\* the lengths of the suggestions of a list
ListShapes ==
    {shape \in UNION {[1..k -> 0..MaxTokens] : k \in 0..MaxSuggestions} :
        TokensBefore(shape, Len(shape) + 1) <= MaxListTokens}

\* the list of the given shape made of the first tokens of toks
ListOfShape(toks, shape) ==
    [i \in 1..Len(shape) |->
        SubSeq(toks, TokensBefore(shape, i) + 1, TokensBefore(shape, i + 1))]

SuggestionLists ==
    {ListOfShape(toks, shape) :
        toks \in [1..MaxListTokens -> ModelTokens], shape \in ListShapes}

\* a suggestions value on which the for-of loop throws (not an array)
NonIterable == << <<"<non-iterable>">> >>

\* confidences of the results given to the filter, in thousandths
SafetyConfidences == {0, 400, 900}

SafetyInit ==
    /\ CacheIdle
    /\ GenIdle
    /\ QueueIdle
    /\ SessionIdle
    /\ EvictIdle
    /\ IngestIdle
    /\ RetryIdle
    /\ ContextIdle
    /\ FeedbackIdle
    /\ TemplateIdle
    /\ sfIn \in [called : {FALSE}, suggestions : SuggestionLists \cup {NonIterable}]
    /\ sfOut = NoCall
    /\ parseIn = NoCall
    /\ parseOut = NoCall

\* Math.random() is drawn only when getFallbackResponse is called: when the
\* loop throws or leaves no suggestion
FallbackDraws(suggestions, professional) ==
    IF suggestions = NonIterable THEN 1..3
    ELSE IF FilterLoop(suggestions, professional).filtered = <<>> THEN 1..3
    ELSE {1}

\* one call validateAndFilter(response, conversationContext)
SafetyCall ==
    /\ ~sfIn.called
    /\ \E professional \in BOOLEAN, conf \in SafetyConfidences :
      \E rnd \in FallbackDraws(sfIn.suggestions, professional) :
        LET response == [messageId |-> "m1",
                         suggestions |-> IF sfIn.suggestions = NonIterable
                                         THEN <<>> ELSE sfIn.suggestions,
                         iterable |-> sfIn.suggestions # NonIterable,
                         confidence |-> conf,
                         reasoning |-> "why", messageType |-> "social"]
        IN  /\ sfIn' = [called |-> TRUE, response |-> response,
                        professional |-> professional]
            /\ sfOut' = [called |-> TRUE,
                         result |-> validateAndFilter(response, professional, rnd),
                         origin |-> FilterLoop(response.suggestions, professional).origin]
            /\ UNCHANGED <<cacheVars, genVars, queueVars, parseVars, templateVars, feedbackVars, contextVars, retryVars, ingestVars, evictVars, sessionVars>>

SafetyNext == SafetyCall

SpecSafety == SafetyInit /\ [][SafetyNext]_vars

C5_ResultPassesChecks ==
    sfOut.called =>
        \A i \in 1..Len(sfOut.result.suggestions) :
            checkSafety(sfOut.result.suggestions[i], sfIn.professional).isValid

Finished(r) == gen[r].pc \in {"Done", "Failed"}

TerminalCalls(r) ==
    {i \in DOMAIN sinkLog[r] : sinkLog[r][i].cb \in {"onComplete", "onError"}}

StageDone(r, name) == \E i \in DOMAIN stages[r] : stages[r][i] = name

\* C1 (as stated): every finished call of generateResponse, the ones whose
\* model call failed included, has returned a response with at least one
\* suggestion.
C1_AlwaysReturnsSuggestions ==
    \A r \in RequestIds :
        Finished(r) => gen[r].pc = "Done" /\ Len(gen[r].ret.suggestions) >= 1

\* C1 (amended): every call of generateResponse that returns - on a cache
\* hit, on a miss, with malformed JSON, with no or only unsafe candidates -
\* returns a response with at least one suggestion; a call returns nothing
\* only when its model call has failed, and then it has thrown.
C1_ReturnsSuggestionsUnlessModelFails ==
    \A r \in RequestIds :
        /\ gen[r].pc = "Done" => Len(gen[r].ret.suggestions) >= 1
        /\ gen[r].pc = "Failed" =>
               /\ stages[r][Len(stages[r])] = "ModelInvoke"
               /\ ~StageDone(r, "Parse")

\* a call that returns after the model answered with text that is not JSON
C1_Witness ==
    \E r \in RequestIds :
        /\ gen[r].pc = "Done"
        /\ StageDone(r, "Parse")
        /\ gen[r].raw.kind = "malformed"
        /\ Len(gen[r].ret.suggestions) >= 1

\* C2: a finished call that was given a sink has made exactly one terminal
\* callback on it, onComplete or onError, and no call makes more than one.
C2_ExactlyOneTerminalCallback ==
    \A r \in RequestIds :
        /\ Cardinality(TerminalCalls(r)) <= 1
        /\ Finished(r) /\ gen[r].sink # {} => Cardinality(TerminalCalls(r)) = 1

\* C3: onComplete is called only after the SafetyFilter stage (or on a
\* cache hit), and its argument has the suggestions and the confidence of
\* the response the call returns.
C3_OnCompleteGetsValidatedResult ==
    \A r \in RequestIds :
        \A i \in DOMAIN sinkLog[r] :
            sinkLog[r][i].cb = "onComplete" =>
                /\ gen[r].cached.hit \/ StageDone(r, "SafetyFilter")
                /\ gen[r].pc = "Done" =>
                       /\ sinkLog[r][i].arg.suggestions = gen[r].ret.suggestions
                       /\ sinkLog[r][i].arg.confidence = gen[r].ret.confidence

Added(q) == subJobs[q][lastRun.messageId] - lastRun.before[q]

\* C6: no response-generation job is ever enqueued for a message from
\* self, whatever the number of executions of its message job.
C6_SelfNeverEnqueuesResponse ==
    \A m \in MessageIds :
        msgJobs[m].state # "absent" /\ msgJobs[m].fromMe =>
            subJobs["ai-responses"][m] = 0

\* the job of a message from self has been processed
C6_Witness ==
    /\ lastRun.called
    /\ lastRun.fromMe
    /\ msgJobs[lastRun.messageId].state = "completed"
    /\ subJobs["ai-responses"][lastRun.messageId] = 0

\* C7: once the job of a message from self has been processed, a
\* promise-detection job has been enqueued for the message.
C7_SelfEnqueuesPromiseDetection ==
    \A m \in MessageIds :
        msgJobs[m].state = "completed" /\ msgJobs[m].fromMe =>
            subJobs["promise-detection"][m] >= 1

\* C8: an execution of processMessageJob for a message not from self whose
\* adds all succeed enqueues exactly one response-generation job, exactly
\* one promise-detection job, and one contact-inference job if the message
\* has a contact id and none otherwise; subJobs is the number of jobs added.
C8_FanOutCounts ==
    lastRun.called /\ ~lastRun.fromMe /\ lastRun.outcome = "completed" =>
        /\ Added("ai-responses") = 1
        /\ Added("promise-detection") = 1
        /\ Added("contact-inference") =
               (IF lastRun.contactId # Undefined THEN 1 ELSE 0)
        /\ lastRun.result.subJobs =
               Added("ai-responses") + Added("promise-detection")
               + Added("contact-inference")

\* a retried job of a message with a contact id whose adds all succeed
C8_Witness ==
    /\ lastRun.called
    /\ ~lastRun.fromMe
    /\ lastRun.outcome = "completed"
    /\ lastRun.contactId # Undefined
    /\ msgJobs[lastRun.messageId].attemptsMade > 0
    /\ lastRun.result.subJobs = 3

\* C10: a get on an available store, issued before the TTL of the entry
\* last written for its key has elapsed and with no delete of the key in
\* between, returns the written suggestions, confidence, reasoning and
\* messageType.
C10_CacheRoundTrip ==
    (/\ lastGet.called
     /\ lastGet.up
     /\ lastGet.expected.present
     /\ lastGet.at - lastGet.expected.at < lastGet.expected.ttl * 1000)
    => /\ lastGet.value.present
       /\ lastGet.value.response.suggestions = lastGet.expected.response.suggestions
       /\ lastGet.value.response.confidence = lastGet.expected.response.confidence
       /\ lastGet.value.response.reasoning = lastGet.expected.response.reasoning
       /\ lastGet.value.response.messageType = lastGet.expected.response.messageType

\* C11: get never returns an entry older than its own ttl, and a get
\* that finds the entry written for its key older than that ttl returns
\* null and leaves no entry for the key that Redis would still return.
C11_StaleEntryEvicted ==
    lastGet.called =>
        /\ lastGet.value.present =>
               lastGet.at - lastGet.value.response.timestamp
                   <= lastGet.value.response.ttl * 1000
        /\ (/\ lastGet.up
            /\ lastGet.expected.present
            /\ lastGet.at - lastGet.expected.at > lastGet.expected.ttl * 1000)
           => /\ ~lastGet.value.present
              /\ ~redisGet(store, lastGet.key, now).present

\* a get one millisecond after the ttl of the entry has elapsed, when Redis
\* has not yet expired the key
C11_Witness ==
    /\ lastGet.called
    /\ lastGet.up
    /\ lastGet.expected.present
    /\ lastGet.at - lastGet.expected.at = lastGet.expected.ttl * 1000 + 1
    /\ ~lastGet.value.present
    /\ ~redisGet(store, lastGet.key, now).present

\* C12: an entry that set stored without an explicit ttl has the ttl that
\* calculateTTL derives from its confidence: 14400 s from 0.9, 7200 s from
\* 0.7, 3600 s from 0.5 and 1800 s below.
C12_TtlFromConfidence ==
    \A k \in CacheKeys :
        (/\ store[k].present
         /\ written[k].present
         /\ written[k].response.ttl = 0)
        => JsonParse(store[k].json).ttl
               = calculateTTL(JsonParse(store[k].json).confidence)

\* C13: after clearUserCache(userId) on an available store Redis returns
\* no entry for any content cached for that user, and the call has removed
\* no entry of another user.
C13_ClearUserCacheClears ==
    (/\ lastOp.called
     /\ lastOp.op = "clearUserCache"
     /\ lastOp.up)
    => /\ \A c \in Contents :
              ~redisGet(store, generateCacheKey(c, lastOp.userId), now).present
       /\ \A c \in Contents, u \in Users :
              generateCacheKey(c, u) \in lastOp.removed => u = lastOp.userId

\* C14: with the store unavailable get answers null; set, delete and
\* clearUserCache leave the store as it is and getStats reports no key; a
\* call of generateResponse whose cache operations fail goes on to the
\* model and, unless the model call fails, returns a response.
C14_CacheFailureDoesNotAbort ==
    /\ lastOp.called /\ ~lastOp.up => ~lastOp.changed /\ lastOp.totalKeys = 0
    /\ \A r \in RequestIds :
        /\ gen[r].cached.called /\ ~gen[r].cached.up => ~gen[r].cached.hit
        /\ gen[r].wrote.called /\ ~gen[r].wrote.up => ~gen[r].wrote.changed
        /\ gen[r].pc = "Failed" => stages[r][Len(stages[r])] = "ModelInvoke"
        /\ (/\ gen[r].pc = "Done"
            /\ ~gen[r].cached.up)
           => /\ StageDone(r, "ModelInvoke")
              /\ Len(gen[r].ret.suggestions) >= 1

\* a call that returns a response after its cache read and its cache write
\* both failed
C14_Witness ==
    \E r \in RequestIds :
        /\ gen[r].pc = "Done"
        /\ ~gen[r].cached.up
        /\ gen[r].wrote.called
        /\ ~gen[r].wrote.up
        /\ StageDone(r, "ModelInvoke")

\* C15: a call that looks up, on an available store and before the ttl
\* has elapsed, a (content, userId) for which an earlier call with another
\* messageId wrote its response, returns cached = true with the suggestions
\* of that response and its own messageId, and does not call the model.
C15_CacheReusedAcrossRequests ==
    \A r \in RequestIds :
        (/\ gen[r].cached.called
         /\ gen[r].cached.up
         /\ gen[r].cached.expected.present
         /\ gen[r].cached.expected.response.messageId # r
         /\ now - gen[r].cached.expected.at < gen[r].cached.expected.ttl * 1000)
        => /\ gen[r].cached.hit
           /\ gen[r].pc = "Done"
           /\ gen[r].ret.cached
           /\ gen[r].ret.suggestions = gen[r].cached.expected.response.suggestions
           /\ gen[r].ret.messageId = r
           /\ ~StageDone(r, "ModelInvoke")

\* the second call repeats the content and user of the first half a ttl later
C15_Witness ==
    \E r \in RequestIds :
        /\ gen[r].cached.called
        /\ gen[r].cached.hit
        /\ gen[r].cached.expected.present
        /\ gen[r].cached.expected.response.messageId # r
        /\ gen[r].cached.expected.content = gen[r].content
        /\ gen[r].cached.expected.userId = gen[r].userId
        /\ now - gen[r].cached.expected.at = (defaultTTL \div 2) * 1000
        /\ gen[r].ret.messageId = r

\* C16: a get for (content2, userId) never returns a value that was
\* written for (content1, userId) with another content.
C16_DistinctContentDistinctEntry ==
    (/\ lastGet.called
     /\ lastGet.value.present
     /\ lastGet.expected.present
     /\ lastGet.expected.userId = lastGet.userId)
    => lastGet.expected.content = lastGet.content

\* a user with entries for two contents reads one of them back
C16_Witness ==
    /\ lastGet.called
    /\ lastGet.value.present
    /\ lastGet.expected.present
    /\ lastGet.expected.content = lastGet.content
    /\ \E c \in Contents :
           /\ c # lastGet.content
           /\ store[generateCacheKey(c, lastGet.userId)].present
           /\ lastGet.value.response.messageId
                  # JsonParse(store[generateCacheKey(c, lastGet.userId)].json).messageId

\* C17: the stages of a call are carried out in the order CacheCheck,
\* ContextBuild, PromptBuild, ModelInvoke, Parse, SafetyFilter, CacheWrite,
\* AnalyticsRecord, a call that misses the cache is done only after all of
\* them, and its sink gets no onComplete before SafetyFilter is over.
C17_StagesInOrder ==
    \A r \in RequestIds :
        /\ Len(stages[r]) <= Len(StageOrder)
        /\ \A i \in DOMAIN stages[r] : stages[r][i] = StageOrder[i]
        /\ gen[r].pc = "Done" /\ ~gen[r].cached.hit =>
               stages[r] = StageOrder
        /\ (/\ gen[r].cached.called
            /\ ~gen[r].cached.hit
            /\ \E i \in DOMAIN sinkLog[r] : sinkLog[r][i].cb = "onComplete")
           => StageDone(r, "SafetyFilter")

\* C18: a call of generateResponse fails only in its ModelInvoke or Parse
\* stage; a failing cache check, context build, safety filter or cache
\* write does not end it.
C18_FailsOnlyInModelStages ==
    \A r \in RequestIds :
        gen[r].pc = "Failed" =>
            /\ stages[r] # <<>>
            /\ stages[r][Len(stages[r])] \in {"ModelInvoke", "Parse"}

\* a call that returns a response although its cache read, its context
\* build, its safety filter and its cache write have all failed
C18_Witness ==
    \E r \in RequestIds :
        /\ gen[r].pc = "Done"
        /\ gen[r].cached.called
        /\ ~gen[r].cached.up
        /\ gen[r].contextFailed
        /\ gen[r].wrote.called
        /\ ~gen[r].wrote.up
        /\ gen[r].ret.safetyIssues = <<MsgValidationError>>
        /\ Len(gen[r].ret.suggestions) >= 1

\* C19: when the text of the model is not JSON, Parse yields the two fixed
\* suggestions with confidence 0.5 and the reasoning that names the
\* fallback, the call does not fail in Parse or later, and it returns them.
C19_MalformedJsonFallsBack ==
    \A r \in RequestIds :
        StageDone(r, "Parse") /\ gen[r].raw.kind \in {"malformed", "empty"} =>
            /\ gen[r].response.suggestions
                   = << <<"I understand.">>, <<"Thanks for sharing that with me.">> >>
            /\ gen[r].response.confidence = 500
            /\ gen[r].response.reasoning = "Fallback response due to parsing error"
            /\ gen[r].pc # "Failed"
            /\ gen[r].pc = "Done" =>
                   /\ gen[r].ret.suggestions = gen[r].response.suggestions
                   /\ gen[r].ret.confidence = 500

\* a streamed text that is not JSON, and the call has returned
C19_Witness ==
    \E r \in RequestIds :
        /\ gen[r].pc = "Done"
        /\ StageDone(r, "Parse")
        /\ gen[r].raw.kind = "malformed"
        /\ "onToken" \in gen[r].sink
        /\ gen[r].chunks > 0
        /\ gen[r].ret.reasoning = "Fallback response due to parsing error"

\* min(max(c, 0), 1) in thousandths
Clamp(c) == IF c < 0 THEN 0 ELSE IF c > 1000 THEN 1000 ELSE c

\* C20: when the text of the model is an object with a numeric confidence
\* c, the confidence of the parsed result is c clamped into [0, 1], for 0,
\* for negative c and for c above 1 as well.
C20_ConfidenceClamped ==
    (/\ parseOut.called
     /\ parseIn.content.kind = "object"
     /\ parseIn.content.confKind = "number")
    => parseOut.result.confidence = Clamp(parseIn.content.confidence)

\* a get that returns the entry written earlier, after time has passed
C10_Witness ==
    /\ lastGet.called
    /\ lastGet.up
    /\ lastGet.expected.present
    /\ lastGet.at > lastGet.expected.at
    /\ lastGet.at - lastGet.expected.at < lastGet.expected.ttl * 1000
    /\ lastGet.value.present
    /\ lastGet.value.response.reasoning = Undefined

-----------------------------------------------------------------------------
(* Specification of PromptTemplates alone: detectMessageType and           *)
(* getTemplate applied to contents, message types and chat types.          *)

MaxWords == 2           \* words in a content given to detectMessageType

\* the words of a content: a marker of each category, capitalised ones and a
\* word without any marker
TemplateWords ==
    {"?", "How", "Can you", "party", "meeting", "Thanks", "help", "deadline",
     "hello"}

TemplateContents == UNION {[1..k -> TemplateWords] : k \in 0..MaxWords}

\* the message types of templateMap and types it does not map
MessageTypes ==
    DOMAIN templateMap \cup {"unknown", "deadline", "group", "general", "constructor"}

ChatTypes == {"individual", "group"}

TemplateInit ==
    /\ CacheIdle
    /\ GenIdle
    /\ QueueIdle
    /\ SessionIdle
    /\ EvictIdle
    /\ IngestIdle
    /\ RetryIdle
    /\ ContextIdle
    /\ FeedbackIdle
    /\ sfIn = NoCall
    /\ sfOut = NoCall
    /\ parseIn = NoCall
    /\ parseOut = NoCall
    /\ tplIn \in [called : {FALSE}, content : TemplateContents,
                  messageType : MessageTypes, chatType : ChatTypes]
    /\ tplOut = NoCall

\* a call detectMessageType(content); the content is classified twice
DetectCall ==
    /\ tplOut.called => tplOut.op = "detectMessageType" /\ Len(tplOut.tags) < 2
    /\ tplIn' = [tplIn EXCEPT !.called = TRUE]
    /\ tplOut' = [called |-> TRUE, op |-> "detectMessageType",
                  tags |-> (IF tplOut.called THEN tplOut.tags ELSE <<>>)
                           \o <<detectMessageType(tplIn.content)>>]
    /\ UNCHANGED <<cacheVars, genVars, safetyVars, parseVars, queueVars, feedbackVars, contextVars, retryVars, ingestVars, evictVars, sessionVars>>

\* a call getTemplate(messageType, context)
GetTemplateCall ==
    /\ ~tplOut.called
    /\ tplIn' = [tplIn EXCEPT !.called = TRUE]
    /\ tplOut' = [called |-> TRUE, op |-> "getTemplate",
                  template |-> getTemplate(tplIn.messageType, tplIn.chatType)]
    /\ UNCHANGED <<cacheVars, genVars, safetyVars, parseVars, queueVars, feedbackVars, contextVars, retryVars, ingestVars, evictVars, sessionVars>>

TemplateNext == DetectCall \/ GetTemplateCall

SpecTemplates == TemplateInit /\ [][TemplateNext]_vars

-----------------------------------------------------------------------------
(* Specification of the feedback and analytics calls of AIProcessor on a   *)
(* table that holds rows of two users for one message.                     *)

FeedbackArgs ==
    [messageId : {"m1"}, userId : Users, selectedIndex : {Undefined, "1"},
     feedback : {Undefined, "positive"}, customResponse : {Undefined, "custom"}]

FeedbackInit ==
    /\ CacheIdle
    /\ GenIdle
    /\ QueueIdle
    /\ SessionIdle
    /\ EvictIdle
    /\ IngestIdle
    /\ RetryIdle
    /\ ContextIdle
    /\ TemplateIdle
    /\ sfIn = NoCall
    /\ sfOut = NoCall
    /\ parseIn = NoCall
    /\ parseOut = NoCall
    /\ aiSuggestions \in [RowIds -> {NoRow} \cup {NewRow("m1", u, 0) : u \in Users}]
    /\ fb = NoCall
    /\ fbStats = NoCall

\* a call of updateFeedback
UpdateFeedbackCall ==
    /\ ~fb.called
    /\ \E args \in FeedbackArgs, applied \in BOOLEAN :
        LET after == updateFeedback(aiSuggestions, args.messageId, args.userId,
                                    args.selectedIndex, args.feedback,
                                    args.customResponse, now, applied)
        IN  /\ aiSuggestions' = after
            /\ fb' = [called |-> TRUE, args |-> args, at |-> now,
                      applied |-> applied, before |-> aiSuggestions,
                      after |-> after, again |-> NoCall]
    /\ UNCHANGED <<fbStats, cacheVars, genVars, safetyVars, parseVars, queueVars,
                   templateVars, contextVars, retryVars, ingestVars, evictVars, sessionVars>>

\* the same call of updateFeedback made once more
UpdateFeedbackAgain ==
    /\ fb.called
    /\ ~fb.again.called
    /\ \E applied \in BOOLEAN :
        LET after == updateFeedback(aiSuggestions, fb.args.messageId, fb.args.userId,
                                    fb.args.selectedIndex, fb.args.feedback,
                                    fb.args.customResponse, now, applied)
        IN  /\ aiSuggestions' = after
            /\ fb' = [fb EXCEPT !.again = [called |-> TRUE, at |-> now,
                                           applied |-> applied, after |-> after]]
    /\ UNCHANGED <<fbStats, cacheVars, genVars, safetyVars, parseVars, queueVars,
                   templateVars, contextVars, retryVars, ingestVars, evictVars, sessionVars>>

\* a call of getAnalytics
GetAnalyticsCall ==
    /\ ~fbStats.called
    /\ \E userId \in Users :
        fbStats' = [called |-> TRUE, userId |-> userId, at |-> now,
                    result |-> getAnalytics(aiSuggestions, userId, now)]
    /\ UNCHANGED <<aiSuggestions, fb, cacheVars, genVars, safetyVars, parseVars,
                   queueVars, templateVars, contextVars, retryVars, ingestVars, evictVars, sessionVars>>

\* time passes
FeedbackTick ==
    /\ ticks < MaxTicks
    /\ \E d \in {1, Week} : now' = now + d
    /\ ticks' = ticks + 1
    /\ UNCHANGED <<store, sets, written, lastGet, lastOp, feedbackVars, genVars,
                   safetyVars, parseVars, queueVars, templateVars, contextVars, retryVars, ingestVars, evictVars, sessionVars>>

FeedbackNext ==
    UpdateFeedbackCall \/ UpdateFeedbackAgain \/ GetAnalyticsCall \/ FeedbackTick

SpecFeedback == FeedbackInit /\ [][FeedbackNext]_vars

-----------------------------------------------------------------------------
(* Specification of ContextBuilder.buildContext on a table of messages     *)
(* that the ingestion service fills and revokes.                           *)

\* the values of maxMessages: small limits and the default
MaxMessagesArgs == {1, 2, 20}

ContextInit ==
    /\ CacheIdle
    /\ GenIdle
    /\ QueueIdle
    /\ SessionIdle
    /\ EvictIdle
    /\ IngestIdle
    /\ RetryIdle
    /\ TemplateIdle
    /\ FeedbackIdle
    /\ ContextIdle
    /\ sfIn = NoCall
    /\ sfOut = NoCall
    /\ parseIn = NoCall
    /\ parseOut = NoCall

\* storeMessage: the row of an incoming message
StoreMessage ==
    /\ ~ctxCall.called
    /\ \E id \in WhatsappIds, chatId \in Chats, userId \in Users, t \in 1..MaxStamp :
        /\ ~dbMessages[id].present
        /\ \A other \in WhatsappIds : other < id => dbMessages[other].present
        /\ dbMessages' = [dbMessages EXCEPT ![id] = StoredMessage(chatId, userId, t)]
    /\ UNCHANGED <<ctxCall, cacheVars, genVars, safetyVars, parseVars, queueVars,
                   templateVars, feedbackVars, retryVars, ingestVars, evictVars, sessionVars>>

\* the event message_revoke_everyone: handleMessageRevoke
RevokeMessage ==
    /\ ~ctxCall.called
    /\ \E id \in WhatsappIds :
        /\ dbMessages[id].present
        /\ ~dbMessages[id].metadata.deleted
        /\ dbMessages' = handleMessageRevoke(dbMessages, id)
    /\ UNCHANGED <<ctxCall, cacheVars, genVars, safetyVars, parseVars, queueVars,
                   templateVars, feedbackVars, retryVars, ingestVars, evictVars, sessionVars>>

\* a row is soft-deleted: a client of the database sets is_deleted
SoftDelete ==
    /\ ~ctxCall.called
    /\ \E id \in WhatsappIds :
        /\ dbMessages[id].present
        /\ ~dbMessages[id].is_deleted
        /\ dbMessages' = [dbMessages EXCEPT ![id].is_deleted = TRUE]
    /\ UNCHANGED <<ctxCall, cacheVars, genVars, safetyVars, parseVars, queueVars,
                   templateVars, feedbackVars, retryVars, ingestVars, evictVars, sessionVars>>

\* a call buildContext(messageId, userId, maxMessages)
BuildContextCall ==
    /\ ~ctxCall.called
    /\ \E messageId \in WhatsappIds, userId \in Users,
          maxMessages \in MaxMessagesArgs, failed \in BOOLEAN :
        \E result \in buildContext(dbMessages, messageId, userId, maxMessages, failed) :
            ctxCall' = [called |-> TRUE, messageId |-> messageId, userId |-> userId,
                        maxMessages |-> maxMessages, failed |-> failed,
                        messages |-> result]
    /\ UNCHANGED <<dbMessages, cacheVars, genVars, safetyVars, parseVars, queueVars,
                   templateVars, feedbackVars, retryVars, ingestVars, evictVars, sessionVars>>

ContextNext == StoreMessage \/ RevokeMessage \/ SoftDelete \/ BuildContextCall

SpecContext == ContextInit /\ [][ContextNext]_vars

-----------------------------------------------------------------------------
(* Specification of the queue 'ai-responses' and its retries.              *)

RetryInit ==
    /\ CacheIdle
    /\ GenIdle
    /\ QueueIdle
    /\ SessionIdle
    /\ EvictIdle
    /\ IngestIdle
    /\ TemplateIdle
    /\ FeedbackIdle
    /\ ContextIdle
    /\ RetryIdle
    /\ sfIn = NoCall
    /\ sfOut = NoCall
    /\ parseIn = NoCall
    /\ parseOut = NoCall

RetryNext ==
    \/ \E j \in JobIds : addAIResponseJob(j) \/ promoteDelayed(j) \/ processAIResponseJob(j)
    \/ RetryTick

SpecRetry == RetryInit /\ [][RetryNext]_vars

-----------------------------------------------------------------------------
(* Specification of the deliveries of one message to the ingestion.        *)

IngestInit ==
    /\ CacheIdle
    /\ GenIdle
    /\ QueueIdle
    /\ SessionIdle
    /\ EvictIdle
    /\ TemplateIdle
    /\ FeedbackIdle
    /\ ContextIdle
    /\ RetryIdle
    /\ IngestIdle
    /\ sfIn = NoCall
    /\ sfOut = NoCall
    /\ parseIn = NoCall
    /\ parseOut = NoCall

IngestNext ==
    \/ handleIncomingMessage
    \/ finishIncomingMessage
    \/ cleanupTimerFires
    \/ IngestTick

SpecIngest == IngestInit /\ [][IngestNext]_vars

-----------------------------------------------------------------------------
(* Specification of ResponseCache.calculateTTL on pairs of confidences.    *)

\* confidences in thousandths: the tenths from -2.0 to 2.0 and the values
\* next to the three steps
TtlConfidences ==
    ParseConfidences \cup {499, 501, 699, 701, 899, 901}

\* calculateTTL is applied to two confidences
CalculateTTLCall ==
    /\ ~lastOp.called
    /\ \E c1, c2 \in TtlConfidences :
           lastOp' = [called |-> TRUE, op |-> "calculateTTL", c1 |-> c1, c2 |-> c2,
                      ttl1 |-> calculateTTL(c1), ttl2 |-> calculateTTL(c2)]
    /\ UNCHANGED <<store, now, ticks, sets, written, lastGet, genVars, safetyVars,
                   parseVars, queueVars, templateVars, feedbackVars, contextVars,
                   retryVars, ingestVars, evictVars, sessionVars>>

SpecTTL == CacheInit /\ [][CalculateTTLCall]_vars

-----------------------------------------------------------------------------
(* Specification of ContextBuilder.calculateAverageResponseTime on the     *)
(* messages of one chat.                                                   *)

MaxConversation == 5    \* messages of the chat

\* timestamps in milliseconds: an hour or a day and more apart, or equal
ConversationStamps == {0, 3600000, DayMillis, DayMillis + 3600000}

\* the rows of a chat as the query returns them, in ascending order of
\* timestamp
Conversations ==
    {rows \in UNION {[1..n -> [timestamp : ConversationStamps, from_me : BOOLEAN]] :
                        n \in 0..MaxConversation} :
        \A i \in 1..(Len(rows) - 1) : rows[i].timestamp <= rows[i + 1].timestamp}

\* a call calculateAverageResponseTime(chatId, userId)
AverageResponseTimeCall ==
    /\ ~ctxCall.called
    /\ \E rows \in Conversations :
           ctxCall' = [called |-> TRUE, rows |-> rows,
                       averageResponseTime |-> calculateAverageResponseTime(rows)]
    /\ UNCHANGED <<dbMessages, cacheVars, genVars, safetyVars, parseVars, queueVars,
                   templateVars, feedbackVars, retryVars, ingestVars, evictVars, sessionVars>>

SpecResponseTime == ContextInit /\ [][AverageResponseTimeCall]_vars

-----------------------------------------------------------------------------
(* Specification of the text that generateCacheKey hashes, on pairs of     *)
(* (content, userId) pairs.  A user id is the UUID of a row of the table   *)
(* users, one token; a content is any text, with ':' and with the text of  *)
(* a user id in it.                                                        *)

MaxKeyTokens == 3       \* tokens of a hashed content

KeyContents ==
    UNION {[1..n -> {"thanks", ":", "u1", "u2"}] : n \in 0..MaxKeyTokens}

\* the texts hashed for set(content1, userId1, ...) and get(content2, userId2)
HashInputCall ==
    /\ ~lastOp.called
    /\ \E content1, content2 \in KeyContents, userId1, userId2 \in Users :
           lastOp' = [called |-> TRUE, op |-> "generateCacheKey",
                      content1 |-> content1, userId1 |-> userId1,
                      content2 |-> content2, userId2 |-> userId2,
                      hashed1 |-> HashInput(content1, userId1),
                      hashed2 |-> HashInput(content2, userId2)]
    /\ UNCHANGED <<store, now, ticks, sets, written, lastGet, genVars, safetyVars,
                   parseVars, queueVars, templateVars, feedbackVars, contextVars,
                   retryVars, ingestVars, evictVars, sessionVars>>

SpecKeys == CacheInit /\ [][HashInputCall]_vars

-----------------------------------------------------------------------------
(* The result of validateAndFilter.                                        *)

\* the candidate is discarded: it is flagged and has no safe alternative
Discarded(suggestion, professional) ==
    LET safetyCheck == checkSafety(suggestion, professional)
    IN  /\ ~safetyCheck.isValid
        /\ createSafeAlternative(suggestion, safetyCheck) \in {Null, <<>>}

\* an issue is detected on the candidate
Flagged(suggestion, professional) == ~checkSafety(suggestion, professional).isValid

\* the fallback pool of the context
FallbackPool(professional) ==
    IF professional
    THEN {professionalFallbacks[i] : i \in 1..Len(professionalFallbacks)}
    ELSE {casualFallbacks[i] : i \in 1..Len(casualFallbacks)}

\* the call of validateAndFilter has returned from its try block
FilterReturned == sfOut.called /\ sfIn.response.iterable

\* C21: when no suggestion remains after checking and remediation (the
\* list is empty or every candidate is discarded), the result has exactly
\* one suggestion, taken from the professional fallback pool in a
\* professional context and from the casual pool otherwise.
C21_FallbackWhenNothingRemains ==
    (/\ FilterReturned
     /\ \A i \in 1..Len(sfIn.response.suggestions) :
            Discarded(sfIn.response.suggestions[i], sfIn.professional))
    => /\ Len(sfOut.result.suggestions) = 1
       /\ sfOut.result.suggestions[1] \in FallbackPool(sfIn.professional)

\* two candidates, both discarded, in a professional context
C21_Witness ==
    /\ FilterReturned
    /\ sfIn.professional
    /\ Len(sfIn.response.suggestions) = 2
    /\ \A i \in 1..2 : Discarded(sfIn.response.suggestions[i], TRUE)
    /\ sfOut.result.suggestions = <<professionalFallbacks[3]>>

\* C22: the confidence of the result is max(0.7 * c, 0.3) when an issue was
\* detected on at least one suggestion and c when none was, c being the
\* confidence of the input, for every c in [0, 1].
C22_ConfidenceDiscount ==
    FilterReturned =>
        LET c == sfIn.response.confidence
            discounted == IF (c * 7) \div 10 > 300 THEN (c * 7) \div 10 ELSE 300
        IN  sfOut.result.confidence =
                IF \E i \in 1..Len(sfIn.response.suggestions) :
                       Flagged(sfIn.response.suggestions[i], sfIn.professional)
                THEN discounted ELSE c

\* every candidate is flagged HIGH and the result is the single fallback
AllHighFallback ==
    /\ FilterReturned
    /\ Len(sfIn.response.suggestions) >= 1
    /\ \A i \in 1..Len(sfIn.response.suggestions) :
           checkSafety(sfIn.response.suggestions[i], sfIn.professional).severity = "high"
    /\ Len(sfOut.result.suggestions) = 1
    /\ sfOut.result.suggestions[1] \in FallbackPool(sfIn.professional)

C24_UnprofessionalRewritten ==
    FilterReturned =>
        \A i \in 1..Len(sfIn.response.suggestions) :
            LET suggestion == sfIn.response.suggestions[i]
            IN  checkSafety(suggestion, TRUE).issues = <<MsgUnprofessional>> =>
                    \E j \in 1..Len(sfOut.origin) :
                        /\ sfOut.origin[j] = suggestion
                        /\ IF sfIn.professional
                           THEN /\ sfOut.result.suggestions[j] # suggestion
                                /\ ~HasTok(sfOut.result.suggestions[j],
                                           unprofessionalPatterns)
                           ELSE sfOut.result.suggestions[j] = suggestion

-----------------------------------------------------------------------------
(* The results of detectMessageType and getTemplate.                       *)

\* the categories in the order the claim gives, before the default
CategoryOrder == <<"question", "invitation", "appreciation", "concern", "business">>

\* the content has a marker of the category
MarkerFound(category, content) ==
    LET lowerContent == toLowerCase(content)
    IN  CASE category = "question" ->
                 \/ HasTok(lowerContent, questionMarkers)
                 \/ Len(lowerContent) > 1 /\ lowerContent[1] \in questionStarts
          [] category = "invitation" -> HasTok(lowerContent, invitationMarkers)
          [] category = "appreciation" -> HasTok(lowerContent, appreciationMarkers)
          [] category = "concern" -> HasTok(lowerContent, concernMarkers)
          [] category = "business" -> HasTok(lowerContent, businessMarkers)

\* C25: detectMessageType returns the first category, in the order question,
\* invitation, appreciation, concern, business, that has a marker in the
\* text, and social when none has; a text with a question marker is a
\* question whatever else it contains, and classifying the same text again
\* gives the same tag.
C25_FirstMatchingCategory ==
    tplOut.called /\ tplOut.op = "detectMessageType" =>
        \A n \in 1..Len(tplOut.tags) :
            LET tag == tplOut.tags[n]
                found == {i \in 1..Len(CategoryOrder) :
                              MarkerFound(CategoryOrder[i], tplIn.content)}
            IN  /\ found = {} => tag = "social"
                /\ found # {} =>
                       \E i \in found :
                           /\ tag = CategoryOrder[i]
                           /\ \A j \in found : i <= j
                /\ MarkerFound("question", tplIn.content) => tag = "question"
                /\ tag = tplOut.tags[1]

\* a text with a capitalised question marker and a business keyword,
\* classified twice
C25_Witness ==
    /\ tplOut.called
    /\ tplOut.op = "detectMessageType"
    /\ tplIn.content = <<"Can you", "deadline">>
    /\ tplOut.tags = <<"question", "question">>

\* C26: for a group chat getTemplate returns the group template for every
\* message type; for an individual chat it returns the template the intent
\* table maps the type to, and the general template for an unmapped type.
C26_GroupTemplateWins ==
    tplOut.called /\ tplOut.op = "getTemplate" =>
        /\ tplIn.chatType = "group" => tplOut.template = "group"
        /\ tplIn.chatType = "individual" =>
               IF tplIn.messageType \in DOMAIN templateMap
               THEN tplOut.template = templateMap[tplIn.messageType]
               ELSE tplOut.template = "general"

\* a group chat with a message type the table maps to another template
C26_Witness ==
    /\ tplOut.called
    /\ tplOut.op = "getTemplate"
    /\ tplIn.chatType = "group"
    /\ tplIn.messageType = "question"
    /\ tplOut.template = "group"

-----------------------------------------------------------------------------
(* Feedback and analytics.                                                 *)

\* the rows a call of updateFeedback with the arguments args addresses
Addressed(table, args) ==
    {id \in DOMAIN table :
        /\ table[id].present
        /\ table[id].message_id = args.messageId
        /\ table[id].user_id = args.userId}

\* the row without its column updated_at
WithoutUpdatedAt(row) ==
    IF row.present THEN [row EXCEPT !.updated_at = SqlNull] ELSE row

C28_GenerationRecordedForAnalytics ==
    \A r \in RequestIds :
        gen[r].pc = "Done" /\ StageDone(r, "AnalyticsRecord") =>
            /\ responseAnalytics[r].called
            /\ getAnalytics(aiSuggestions, gen[r].userId, now).totalSuggestions >= 1
            /\ r \in getAnalytics(aiSuggestions, gen[r].userId, now).messageIds
            /\ Addressed(aiSuggestions, [messageId |-> r, userId |-> gen[r].userId]) # {}

-----------------------------------------------------------------------------
(* The messages of a context.                                              *)

\* C29: the messages of a context returned by buildContext include no
\* deleted message and no revoked message, are at most maxMessages, and are
\* in ascending order of timestamp.
C29_ContextMessagesLive ==
    ctxCall.called =>
        /\ \A i \in 1..Len(ctxCall.messages) :
               /\ ~dbMessages[ctxCall.messages[i]].is_deleted
               /\ ~dbMessages[ctxCall.messages[i]].metadata.deleted
        /\ Len(ctxCall.messages) <= ctxCall.maxMessages
        /\ \A i, j \in 1..Len(ctxCall.messages) :
               i < j => dbMessages[ctxCall.messages[i]].timestamp
                            <= dbMessages[ctxCall.messages[j]].timestamp

-----------------------------------------------------------------------------
(* The retries of a queued job.                                            *)

\* the executions of job j
Executions(j) == aiJobs[j].executions

\* C30: a job is executed at most 3 times; the backoff after the first
\* failed attempt is 2 s, the backoff after each later failed attempt that
\* is retried is at least twice the one before, and the next execution does
\* not start before the backoff has passed; a job whose third attempt failed
\* is in the failed set; no execution follows a third failure or a success.
C30_BoundedRetriesWithBackoff ==
    \A j \in JobIds :
        LET ex == Executions(j)
        IN  /\ Len(ex) <= 3
            /\ \A k \in 1..Len(ex) :
                   ex[k].outcome = "returned" => k = Len(ex)
            /\ \A k \in 1..Len(ex) :
                   /\ ex[k].outcome = "thrown" /\ k < 3 =>
                          /\ k = 1 => ex[k].backoff = 2000
                          /\ k > 1 => ex[k].backoff >= 2 * ex[k - 1].backoff
                          /\ k < Len(ex) => ex[k + 1].at - ex[k].at >= ex[k].backoff
            /\ (Len(ex) = 3 /\ ex[3].outcome = "thrown") => aiJobs[j].state = "failed"
            /\ (Len(ex) > 0 /\ ex[Len(ex)].outcome = "returned") =>
                   aiJobs[j].state = "completed"
            /\ aiJobs[j].state = "failed" =>
                   Len(ex) = 3 /\ \A k \in 1..3 : ex[k].outcome = "thrown"

\* a job failed on its third attempt, with both backoffs waited for
C30_Witness ==
    \E j \in JobIds :
        /\ aiJobs[j].state = "failed"
        /\ Len(Executions(j)) = 3
        /\ Executions(j)[2].backoff > Executions(j)[1].backoff

-----------------------------------------------------------------------------
(* Termination of a call.                                                  *)

\* C31: every generateResponse call terminates: a call that has been made
\* ends, with its result or with the failure its catch block rethrows, also
\* when the model endpoint stops answering.
C31_EveryCallTerminates ==
    \A r \in RequestIds :
        InFlight(r) ~> (gen[r].pc \in {"Done", "Failed", "returned"})

-----------------------------------------------------------------------------
(* Duplicate deliveries.                                                   *)

\* C32: a call of handleIncomingMessage for a message made less than 5
\* seconds after a delivery of that message was accepted for processing is
\* skipped.
C32_DuplicateWithin5sSkipped ==
    (lastDelivery.called /\ lastDelivery.since # Never
                         /\ lastDelivery.since < cleanupDelay)
        => lastDelivery.skipped

-----------------------------------------------------------------------------
(* The TTL derived from a confidence.                                      *)

\* C33: for confidences c1 < c2 the TTL that calculateTTL derives for c1 is
\* less than or equal to the TTL it derives for c2.
C33_TtlMonotone ==
    (lastOp.called /\ lastOp.op = "calculateTTL" /\ lastOp.c1 < lastOp.c2)
        => lastOp.ttl1 <= lastOp.ttl2

\* two confidences on the two sides of a step
C33_Witness ==
    /\ lastOp.called
    /\ lastOp.op = "calculateTTL"
    /\ lastOp.c1 = 699
    /\ lastOp.c2 = 700
    /\ lastOp.ttl1 < lastOp.ttl2

-----------------------------------------------------------------------------
(* The number of suggestions of a result.                                  *)

\* C34: every response that generateResponse returns has between 1 and 3
\* suggestions, whatever number of candidates the model returned.
C34_OneToThreeSuggestions ==
    \A r \in RequestIds :
        gen[r].pc = "Done" =>
            /\ Len(gen[r].ret.suggestions) >= 1
            /\ Len(gen[r].ret.suggestions) <= 3

-----------------------------------------------------------------------------
(* The average response time.                                              *)

\* the positions of the self-sent messages that immediately follow a
\* non-self message with a gap strictly between 0 and 24 hours
ValidGaps(rows) ==
    {i \in 2..Len(rows) :
        /\ rows[i].from_me
        /\ ~rows[i - 1].from_me
        /\ rows[i].timestamp - rows[i - 1].timestamp > 0
        /\ rows[i].timestamp - rows[i - 1].timestamp < 24 * 60 * 60 * 1000}

RECURSIVE GapSum(_, _)
GapSum(rows, gaps) ==
    IF gaps = {} THEN 0
    ELSE LET i == CHOOSE g \in gaps : TRUE
         IN  rows[i].timestamp - rows[i - 1].timestamp + GapSum(rows, gaps \ {i})

-----------------------------------------------------------------------------
(* Concurrent calls for one fingerprint.                                   *)

\* the calls r1 and r2 are made for one (content, userId) pair, both missed
\* the cache on an available store and both had an answer of the model
BothInvoked(r1, r2) ==
    /\ r1 # r2
    /\ \A r \in {r1, r2} :
        /\ gen[r].pc \notin {"idle", "CacheCheck"}
        /\ gen[r].cached.up
        /\ ~gen[r].cached.hit
        /\ StageDone(r, "Parse")
    /\ gen[r1].content = gen[r2].content
    /\ gen[r1].userId = gen[r2].userId

\* C36: two calls of generateResponse for one (content, userId) pair that
\* both miss the cache and both invoke the model do not fail, and each of
\* them returns at least one suggestion and writes the cache.
C36_ConcurrentMissesBothComplete ==
    \A r1, r2 \in RequestIds :
        BothInvoked(r1, r2) =>
            \A r \in {r1, r2} :
                /\ gen[r].pc # "Failed"
                /\ gen[r].pc = "Done" =>
                       /\ Len(gen[r].ret.suggestions) >= 1
                       /\ gen[r].wrote.called

\* two calls for one pair have both invoked the model before either wrote
\* the cache, and both have returned after writing it to the available store
C36_Witness ==
    \E r1, r2 \in RequestIds :
        /\ BothInvoked(r1, r2)
        /\ \A r \in {r1, r2} :
            /\ gen[r].pc = "Done"
            /\ gen[r].wrote.called
            /\ gen[r].wrote.up
            /\ Len(gen[r].ret.suggestions) >= 1

-----------------------------------------------------------------------------
(* Cache keys of different users.                                          *)

\* C37: for user ids u1 different from u2 and any contents, the text hashed
\* for (content1, u1) differs from the text hashed for (content2, u2), so
\* that with a collision-free hash the two cache keys differ and get for
\* the one pair never reads the entry set for the other.
C37_KeysOfDifferentUsersDiffer ==
    (/\ lastOp.called
     /\ lastOp.op = "generateCacheKey"
     /\ lastOp.userId1 # lastOp.userId2)
    => lastOp.hashed1 # lastOp.hashed2

\* the content of the one pair ends with ':' and the other user's id
C37_Witness ==
    /\ lastOp.called
    /\ lastOp.op = "generateCacheKey"
    /\ lastOp.userId1 = <<"u1">>
    /\ lastOp.userId2 = <<"u2">>
    /\ lastOp.content1 = <<"thanks">>
    /\ lastOp.content2 = <<"thanks", ":", "u1">>
    /\ lastOp.hashed1 # lastOp.hashed2

\* C38: an entry that get's lazy eviction or cleanup deletes has expired at
\* the moment it is deleted, whatever set, get and cleanup of other callers
\* did to the key in the meantime
C38_EvictionNeverRemovesFresh ==
    (lastOp.called /\ lastOp.op = "evict") => ~lastOp.fresh

\* C39: after a ready session has emitted a disconnected event, the monitor's
\* reconnect attempt creates a new client for the session id and the session
\* leaves the disconnected state
C39_ReconnectionMakesProgress ==
    \A s \in SessionIds :
        (sessions[s] = "disconnected" /\ reconnectTimers[s] > 0)
            ~> (sessions[s] # "disconnected")

====
